---- MODULE Spec2Model ----
(***************************************************************************)
(* Model of the SQL tool layer of mcp-sqlServer: MCPTools                  *)
(* (src/mcp_tools.py, src/services/sql_mcp_tools.py), the pyodbc client    *)
(* MSSQLMSIClient (src/sql_client.py, src/services/sql_client.py) and the  *)
(* REST client MSSQLRestClient (mssql_query_server.py).                    *)
(*                                                                         *)
(* Texts (SQL statements, error messages) are sequences of one-character   *)
(* strings, so that lower(), strip(), startswith() and the `in` substring  *)
(* test are computed and not assumed.                                      *)
(***************************************************************************)
EXTENDS Integers, Sequences, FiniteSets, TLC

VARIABLES
    variant,              \* which client module is linked: "legacy" = src/sql_client.py, "services" = src/services/sql_client.py
    pc,                   \* position of the running MCPTools coroutine
    op,                   \* the operation that is running or has returned
    sql_query,            \* the SQL text of the running operation
    attempt,              \* loop variable of `for attempt in range(max_retries)`
    retry_delay,          \* seconds of the next backoff wait
    query_result,         \* last value returned by sql_client.execute_query
    result,               \* the value the operation returned
    calls,                \* history: the outcomes of the execute_query invocations of this operation
    sleeps,               \* history: the asyncio.sleep delays of this operation
    net,                  \* history: token requests and connection attempts of this operation
    others,               \* history: other requests the event loop ran while this operation waited in a backoff
    sql_client_instance,  \* MCPTools._sql_client_instance (0 is None)
    tools,                \* the sql_client field of every constructed MCPTools
    clients,              \* state of the executor of every created MSSQLMSIClient
    uses,                 \* history: the client each execute_query of a tool was issued on
    cleanups,             \* history: number of cleanup_sql_client calls
    cleaned,              \* history: the client each cleanup_sql_client found registered, and the number of MCPTools constructed before it
    rop,                  \* the tool of mssql_query_server.py that is running or has returned
    rsql,                 \* the SQL text that tool hands to execute_query_via_rest
    rpc,                  \* position of MSSQLRestClient.execute_query_via_rest
    rsteps,               \* history: the strategies invoked by the running REST call, with their responses
    rresult,              \* how the REST call ended
    pcall,                \* per caller of execute_query: where its coroutine waits and the state of its connection
    pqueue,               \* the work queue of the client's ThreadPoolExecutor
    pworkers,             \* the work items the executor's worker threads are running
    conns,                \* history: every connection a worker thread has opened, with its state
    manifest,             \* the schema manifest file as the loader finds it
    schema_cache,         \* SchemaLoader._schema_cache
    opens,                \* history: number of times the manifest file was opened
    sop,                  \* the SchemaLoader method called last
    sresult,              \* what that method returned or raised
    question,             \* the user's question handed to QueryParser, as its words
    ppc,                  \* position of QueryParser.parse_user_query
    parsed                \* the components parse_user_query has derived so far

callVars == <<variant, pc, op, sql_query, attempt, retry_delay, query_result, result, calls, sleeps, net, others>>
lifeVars == <<sql_client_instance, tools, clients, uses, cleanups, cleaned>>
restVars == <<rop, rsql, rpc, rsteps, rresult>>
poolVars == <<pcall, pqueue, pworkers, conns>>
schemaVars == <<manifest, schema_cache, opens, sop, sresult>>
parseVars == <<question, ppc, parsed>>
vars == <<variant, pc, op, sql_query, attempt, retry_delay, query_result, result, calls, sleeps, net, others,
          sql_client_instance, tools, clients, uses, cleanups, cleaned, rop, rsql, rpc, rsteps, rresult,
          pcall, pqueue, pworkers, conns, manifest, schema_cache, opens, sop, sresult,
          question, ppc, parsed>>

----
(* Texts *)

S_timeout == <<"t","i","m","e","o","u","t">>
S_connection == <<"c","o","n","n","e","c","t","i","o","n">>
S_network == <<"n","e","t","w","o","r","k">>
S_transient == <<"t","r","a","n","s","i","e","n","t">>
S_temporary == <<"t","e","m","p","o","r","a","r","y">>
S_reset == <<"r","e","s","e","t">>
S_select == <<"s","e","l","e","c","t">>
S_drop == <<"d","r","o","p">>
S_delete == <<"d","e","l","e","t","e">>
S_insert == <<"i","n","s","e","r","t">>
S_update == <<"u","p","d","a","t","e">>
S_create == <<"c","r","e","a","t","e">>
S_alter == <<"a","l","t","e","r">>
S_truncate == <<"t","r","u","n","c","a","t","e">>
S_exec == <<"e","x","e","c">>
S_execute == <<"e","x","e","c","u","t","e">>

P_QueryExecutionError == <<"Q","u","e","r","y"," ","e","x","e","c","u","t","i","o","n"," ","e","r","r","o","r",":"," ">>
P_ConnectionError == <<"C","o","n","n","e","c","t","i","o","n"," ","e","r","r","o","r",":"," ">>
P_MSIFailed == <<"M","S","I"," ","d","a","t","a","b","a","s","e"," ","c","o","n","n","e","c","t","i","o","n"," ","f","a","i","l","e","d",":"," ">>
P_SQLExecutionFailed == <<"S","Q","L"," ","e","x","e","c","u","t","i","o","n"," ","f","a","i","l","e","d",":"," ">>
M_ConnectionTimedOut == <<"C","o","n","n","e","c","t","i","o","n"," ","t","i","m","e","d"," ","o","u","t"," ","a","f","t","e","r"," ","3","0"," ","s","e","c","o","n","d","s">>
M_QueryTimedOut == <<"Q","u","e","r","y"," ","e","x","e","c","u","t","i","o","n"," ","t","i","m","e","d"," ","o","u","t"," ","a","f","t","e","r"," ","6","0"," ","s","e","c","o","n","d","s">>
M_EmptyQuery == <<"S","Q","L"," ","q","u","e","r","y"," ","c","a","n","n","o","t"," ","b","e"," ","e","m","p","t","y">>

\* Texts of the exceptions raised by the libraries the client calls
\* (pyodbc / ODBC Driver 18, azure.identity); the client interpolates str(e).
D_LoginTimeout == <<"L","o","g","i","n"," ","t","i","m","e","o","u","t"," ","e","x","p","i","r","e","d">>
D_LoginFailed == <<"L","o","g","i","n"," ","f","a","i","l","e","d"," ","f","o","r"," ","u","s","e","r">>
D_Syntax == <<"I","n","c","o","r","r","e","c","t"," ","s","y","n","t","a","x"," ","n","e","a","r">>
D_Denied == <<"T","h","e"," ","S","E","L","E","C","T"," ","p","e","r","m","i","s","s","i","o","n"," ","w","a","s"," ","d","e","n","i","e","d">>
D_TokenFailed == <<"D","e","f","a","u","l","t","A","z","u","r","e","C","r","e","d","e","n","t","i","a","l"," ","f","a","i","l","e","d"," ","t","o"," ","r","e","t","r","i","e","v","e"," ","a"," ","t","o","k","e","n">>
\* Texts of exceptions raised by a substituted sql_client (the tests patch it)
X_Reset == <<"C","o","n","n","e","c","t","i","o","n"," ","r","e","s","e","t"," ","b","y"," ","p","e","e","r">>
X_Boom == <<"b","o","o","m">>

T_SelectSp == <<"S","E","L","E","C","T"," ">>
T_FromSp == <<"F","R","O","M"," ">>
T_WhereSp == <<"W","H","E","R","E"," ">>
T_CommaSp == <<","," ">>
T_Sp == <<" ">>
T_Star == <<"*">>

\* Caller-supplied arguments the model draws from
In_Table == <<"t">>
In_ColA == <<"a">>
In_ColB == <<"b">>
In_WherePlain == <<"a","=","1">>
In_WhereDrop == <<"1","=","1",";"," ","D","R","O","P"," ","T","A","B","L","E"," ","t">>
In_WhereBlank == <<" ">>
In_Order == <<"O","R","D","E","R"," ","B","Y"," ","a"," ","D","E","S","C">>
In_Limit == <<"T","O","P"," ","5">>
Sql_SelectStar == <<"S","E","L","E","C","T"," ","*"," ","F","R","O","M"," ","t">>
Sql_MixedCase == <<"S","e","l","e","c","t"," ","a"," ","F","R","O","M"," ","t">>
Sql_Drop == <<"s","e","l","e","c","t"," ","*"," ","f","r","o","m"," ","t",";"," ","D","R","O","P"," ","T","A","B","L","E"," ","t">>
Sql_Delete == <<"D","E","L","E","T","E"," ","F","R","O","M"," ","t">>
Sql_Padded == <<" "," ","s","e","l","e","c","t"," ","a"," ","f","r","o","m"," ","t"," ">>
Sql_UpdatedAt == <<"S","E","L","E","C","T"," ","u","p","d","a","t","e","d","_","a","t"," ","F","R","O","M"," ","t">>

----
(* str methods *)

UpperLetters == <<"A","B","C","D","E","F","G","H","I","J","K","L","M","N","O","P","Q","R","S","T","U","V","W","X","Y","Z">>
LowerLetters == <<"a","b","c","d","e","f","g","h","i","j","k","l","m","n","o","p","q","r","s","t","u","v","w","x","y","z">>

LowerChar(c) ==
    IF \E i \in 1..26 : UpperLetters[i] = c
    THEN LowerLetters[CHOOSE i \in 1..26 : UpperLetters[i] = c]
    ELSE c

\* str.lower()
Lower(s) == [i \in 1..Len(s) |-> LowerChar(s[i])]

\* str.strip(): drop leading and trailing blanks
Strip(s) ==
    IF \A i \in 1..Len(s) : s[i] = " "
    THEN <<>>
    ELSE LET first == CHOOSE i \in 1..Len(s) : s[i] # " " /\ \A j \in 1..(i-1) : s[j] = " "
             last  == CHOOSE i \in 1..Len(s) : s[i] # " " /\ \A j \in (i+1)..Len(s) : s[j] = " "
         IN  SubSeq(s, first, last)

\* str.startswith(p)
StartsWith(s, p) == Len(s) >= Len(p) /\ SubSeq(s, 1, Len(p)) = p

\* p in s
Contains(s, p) == \E i \in 1..(Len(s) - Len(p) + 1) : SubSeq(s, i, i + Len(p) - 1) = p

RECURSIVE Join(_, _)
\* sep.join(items)
Join(items, sep) ==
    IF Len(items) = 0 THEN <<>>
    ELSE IF Len(items) = 1 THEN items[1]
    ELSE items[1] \o sep \o Join(Tail(items), sep)

----
(* MSSQLMSIClient: what one execute_query call does, given what the        *)
(* environment (identity provider, network, server) does to it.            *)

Variants == {"legacy", "services"}

NumRowSets == 2
RowSets == 1..NumRowSets     \* distinct non-empty row lists a query can return

\* What the environment does to one execute_query call.
\*   ok             the statement runs and returns rows
\*   token_fail     credential.get_token raises (services: the token is acquired in _connect_sync)
\*   login_fail     pyodbc.connect raises pyodbc.Error: the login is refused
\*   connect_timeout  the connection is not established in time
\*   exec_timeout   the statement is still running when the wait on it expires
\*                  (services only: the legacy client waits without a timeout)
\*   syntax_error   cursor.execute raises pyodbc.Error: malformed statement
\*   denied         cursor.execute raises pyodbc.Error: no permission on the object
ClientEvents(v) ==
    {[kind |-> "ok", rows |-> r] : r \in RowSets}
    \cup {[kind |-> k, rows |-> 0] : k \in {"login_fail", "connect_timeout", "syntax_error", "denied"}}
    \cup (IF v = "services"
          THEN {[kind |-> k, rows |-> 0] : k \in {"token_fail", "exec_timeout"}}
          ELSE {})

\* A substituted client whose execute_query raises instead of returning.
RaiseEvents == {[kind |-> k, rows |-> 0] : k \in {"raise_retryable", "raise_fatal"}}

Raised(msg) == [raised |-> TRUE, text |-> msg]
Connected == [raised |-> FALSE, text |-> <<>>]

\* src/sql_client.py _get_connection / src/services/sql_client.py get_connection:
\* the connection, or the exception that leaves the method
get_connection(v, ev) ==
    IF v = "legacy"
    THEN CASE ev.kind = "connect_timeout" -> Raised(P_ConnectionError \o M_ConnectionTimedOut)
           [] ev.kind = "login_fail"      -> Raised(P_MSIFailed \o D_LoginFailed)
           [] OTHER                       -> Connected
    ELSE CASE ev.kind = "token_fail"      -> Raised(P_ConnectionError \o D_TokenFailed)
           [] ev.kind = "login_fail"      -> Raised(P_ConnectionError \o D_LoginFailed)
           [] ev.kind = "connect_timeout" -> Raised(P_ConnectionError \o D_LoginTimeout)
           [] OTHER                       -> Connected

ErrorResult(msg) == [raised |-> FALSE, status |-> "error", error |-> msg, rows |-> 0]
SuccessResult(r) == [raised |-> FALSE, status |-> "success", error |-> <<>>, rows |-> r]

\* _execute_query_sync: a pyodbc.Error is returned as an error result, not raised
execute_query_sync(ev) ==
    CASE ev.kind = "syntax_error" -> ErrorResult(P_SQLExecutionFailed \o D_Syntax)
      [] ev.kind = "denied"       -> ErrorResult(P_SQLExecutionFailed \o D_Denied)
      [] OTHER                    -> SuccessResult(ev.rows)

\* MSSQLMSIClient.execute_query: every exception becomes an error result
execute_query(v, sql, ev) ==
    IF v = "services" /\ Strip(sql) = <<>>
    THEN ErrorResult(P_QueryExecutionError \o M_EmptyQuery)
    ELSE LET conn == get_connection(v, ev) IN
         IF conn.raised
         THEN ErrorResult(P_QueryExecutionError \o conn.text)
         ELSE IF v = "services" /\ ev.kind = "exec_timeout"
              THEN ErrorResult(P_QueryExecutionError \o M_QueryTimedOut)
              ELSE execute_query_sync(ev)

\* Token requests and connection attempts one execute_query call makes
NetworkOps(v, sql, ev) ==
    IF ev \in RaiseEvents THEN 0
    ELSE IF v = "services" /\ Strip(sql) = <<>> THEN 0
    ELSE IF v = "services" THEN (IF ev.kind = "token_fail" THEN 1 ELSE 2)
    ELSE 1

\* What the caller of sql_client.execute_query observes
ClientOutcome(v, sql, ev) ==
    CASE ev.kind = "raise_retryable" -> [raised |-> TRUE, status |-> "raised", error |-> X_Reset, rows |-> 0]
      [] ev.kind = "raise_fatal"     -> [raised |-> TRUE, status |-> "raised", error |-> X_Boom, rows |-> 0]
      [] OTHER                       -> execute_query(v, sql, ev)

----
(* MCPTools: statement assembly, safety check, retry classification *)

\* a fourth attempt is allowed
max_retries_four == 3 + 1

max_retries == 3
initial_retry_delay == 1

RetryableResultWords == {S_timeout, S_connection, S_network, S_transient, S_temporary}
RetryableExceptionWords == RetryableResultWords \cup {S_reset}
dangerous_keywords == {S_drop, S_delete, S_insert, S_update, S_create, S_alter, S_truncate, S_exec, S_execute}

\* any(w in query_result["error"].lower() for w in [...])
IsRetryableResult(error) == \E w \in RetryableResultWords : Contains(Lower(error), w)

\* any(w in str(api_error).lower() for w in [... , "reset"])
IsRetryableException(error) == \E w \in RetryableExceptionWords : Contains(Lower(error), w)

\* the last allowed attempt is given up one attempt early
HasAttemptsLeft_early(a) == a < max_retries - 2

\* `if attempt < max_retries - 1`
HasAttemptsLeft(a) == a < max_retries - 1

\* the surrounding blanks are kept before the test for the leading keyword
OnlySelect_untrimmed(sql) == StartsWith(Lower(sql), S_select)

\* execute_custom_sql: sql_lower = sql_query.lower().strip(); sql_lower.startswith('select')
OnlySelect(sql) == StartsWith(Strip(Lower(sql)), S_select)

\* the keywords are looked up in the statement as typed, not in its lower-cased text
HasDangerousKeyword_cased(sql) == \E k \in dangerous_keywords : Contains(Strip(sql), k)

\* execute_custom_sql: any(keyword in sql_lower for keyword in dangerous_keywords)
HasDangerousKeyword(sql) == \E k \in dangerous_keywords : Contains(Strip(Lower(sql)), k)

\* The caller-supplied `columns` argument: a list of names, a plain string,
\* or a list holding a value that is not a string (', '.join raises on it).
ColumnsInputs ==
    { [kind |-> "list", items |-> <<>>],
      [kind |-> "list", items |-> <<In_ColA, In_ColB>>],
      [kind |-> "str", items |-> <<In_ColA>>],
      [kind |-> "badlist", items |-> <<In_ColA>>] }
TableInputs == {<<>>, In_Table}
WhereInputs == {<<>>, In_WhereBlank, In_WherePlain, In_WhereDrop}
OrderInputs == {<<>>, In_Order}
LimitInputs == {<<>>, In_Limit}
CustomSqlInputs == {Sql_SelectStar, Sql_MixedCase, Sql_Drop, Sql_Delete, Sql_Padded, Sql_UpdatedAt}

\* `columns_str`
ColumnsStr(columns) ==
    IF columns.kind = "str" THEN columns.items[1]
    ELSE IF columns.items # <<>> THEN Join(columns.items, T_CommaSp)
    ELSE T_Star

\* execute_sql_with_auth, step 1: the statement built from the components
BuildSql(table_name, columns, where_clause, order_clause, limit_clause) ==
    LET columns_str == ColumnsStr(columns)
        head == IF limit_clause # <<>>
                THEN T_SelectSp \o limit_clause \o T_Sp \o columns_str
                ELSE T_SelectSp \o columns_str
        from == T_FromSp \o table_name
        where == IF where_clause # <<>> /\ Strip(where_clause) # <<>>
                 THEN << T_WhereSp \o where_clause >> ELSE <<>>
        order == IF order_clause # <<>> /\ Strip(order_clause) # <<>>
                 THEN << order_clause >> ELSE <<>>
    IN  Join(<<head, from>> \o where \o order, T_Sp)

----
(* Results returned by the operations of MCPTools *)

NoResult == [kind |-> "none", success |-> FALSE, error |-> "none", troubleshooting |-> FALSE, data |-> 0, attempts |-> 0]
Unbound == [raised |-> FALSE, status |-> "unbound", error |-> <<>>, rows |-> 0]

Failure(class) == [kind |-> "returned", success |-> FALSE, error |-> class, troubleshooting |-> FALSE, data |-> 0, attempts |-> 0]
Success(rows) == [kind |-> "returned", success |-> TRUE, error |-> "none", troubleshooting |-> FALSE, data |-> rows, attempts |-> 0]
\* the exception leaves the operation
Escapes == [kind |-> "raised", success |-> FALSE, error |-> "exception", troubleshooting |-> FALSE, data |-> 0, attempts |-> 0]

\* execute_sql_with_auth: the return in the `except Exception as api_error` of the retry loop
RetryLoopFailure(a) == [kind |-> "returned", success |-> FALSE, error |-> "client_exception", troubleshooting |-> TRUE, data |-> 0, attempts |-> a + 1]

\* execute_custom_sql: the return in the `except Exception as api_error` around execute_query
CustomSqlClientFailure == [kind |-> "returned", success |-> FALSE, error |-> "client_exception", troubleshooting |-> TRUE, data |-> 0, attempts |-> 0]

\* the handler lets the exception through
OuterExcept_reraise(class) == Escapes

\* the outermost `except Exception as e` of an operation
OuterExcept(class) == Failure(class)

\* execute_sql_with_auth, step 3: format the last query_result
FormatResult(qr) ==
    IF qr.status = "unbound" THEN OuterExcept("outer_exception")
    ELSE IF qr.status = "error" THEN Failure("sql_failed")
    ELSE Success(qr.rows)

----
(* The operations of MCPTools as steps between awaits *)

CallEntry(ev, out) == [kind |-> ev.kind, status |-> out.status, rows |-> out.rows]

Begin(o, sql) ==
    /\ op' = o
    /\ sql_query' = sql
    /\ attempt' = 0
    /\ retry_delay' = initial_retry_delay
    /\ query_result' = Unbound
    /\ calls' = <<>>
    /\ sleeps' = <<>>
    /\ net' = 0
    /\ others' = 0

Return(r) ==
    /\ pc' = "returned"
    /\ result' = r

\* execute_sql_with_auth up to the first `await self.sql_client.execute_query`
StartExecuteSqlWithAuth ==
    /\ pc = "idle"
    /\ \E table_name \in TableInputs, columns \in ColumnsInputs, where_clause \in WhereInputs,
          order_clause \in OrderInputs, limit_clause \in LimitInputs :
          IF table_name = <<>> \/ columns.items = <<>>
          THEN /\ Begin("execute_sql_with_auth", <<>>)
               /\ Return(Failure("missing_params"))
          ELSE IF columns.kind = "badlist"
          THEN /\ Begin("execute_sql_with_auth", <<>>)
               /\ Return(OuterExcept("outer_exception"))
          ELSE /\ Begin("execute_sql_with_auth", BuildSql(table_name, columns, where_clause, order_clause, limit_clause))
               /\ pc' = "attempt"
               /\ result' = NoResult
    /\ UNCHANGED <<variant, lifeVars, restVars, poolVars, schemaVars, parseVars>>

\* execute_sql_with_auth: sql_client.execute_query returns or raises, and the
\* body of the retry loop runs up to the next await or to the return
AttemptExecuteSqlWithAuth ==
    /\ pc = "attempt"
    /\ op = "execute_sql_with_auth"
    /\ \E ev \in ClientEvents(variant) \cup RaiseEvents :
          LET out == ClientOutcome(variant, sql_query, ev) IN
          /\ calls' = Append(calls, CallEntry(ev, out))
          /\ net' = net + NetworkOps(variant, sql_query, ev)
          /\ IF out.raised
             THEN /\ query_result' = query_result
                  /\ IF IsRetryableException(out.error) /\ HasAttemptsLeft(attempt)
                     THEN /\ pc' = "backoff"
                          /\ result' = result
                     ELSE Return(RetryLoopFailure(attempt))
             ELSE /\ query_result' = out
                  /\ IF out.status # "error"
                     THEN Return(FormatResult(out))
                     ELSE IF IsRetryableResult(out.error) /\ HasAttemptsLeft(attempt)
                     THEN /\ pc' = "backoff"
                          /\ result' = result
                     ELSE Return(FormatResult(out))
    /\ UNCHANGED <<variant, op, sql_query, attempt, retry_delay, sleeps, others, lifeVars, restVars, poolVars, schemaVars, parseVars>>

\* execute_sql_with_auth: `await asyncio.sleep(retry_delay); retry_delay *= 2; continue`
Backoff ==
    /\ pc = "backoff"
    /\ sleeps' = Append(sleeps, retry_delay)
    /\ retry_delay' = retry_delay * 2
    /\ attempt' = attempt + 1
    /\ IF attempt + 1 < max_retries
       THEN /\ pc' = "attempt"
            /\ result' = result
       ELSE Return(FormatResult(query_result))     \* range(max_retries) is exhausted
    /\ UNCHANGED <<variant, op, sql_query, query_result, calls, net, others, lifeVars, restVars, poolVars, schemaVars, parseVars>>

MaxOthers == 1       \* other requests explored per operation

\* the wait stops the thread of the event loop: time.sleep(retry_delay)
SleepYields_blocking == FALSE

\* `await asyncio.sleep(retry_delay)`: the coroutine is suspended and the
\* event loop goes on with whatever else is ready
SleepYields == TRUE

\* while execute_sql_with_auth waits in its backoff, the event loop runs the
\* handler of another request
ServeOther ==
    /\ pc = "backoff"
    /\ SleepYields
    /\ others < MaxOthers
    /\ others' = others + 1
    /\ UNCHANGED <<variant, pc, op, sql_query, attempt, retry_delay, query_result, result, calls, sleeps, net,
                   lifeVars, restVars, poolVars, schemaVars, parseVars>>

\* execute_custom_sql up to `await self.sql_client.execute_query`
StartExecuteCustomSql ==
    /\ pc = "idle"
    /\ \E sql \in CustomSqlInputs :
          /\ Begin("execute_custom_sql", sql)
          /\ IF ~OnlySelect(sql) THEN Return(Failure("not_select"))
             ELSE IF HasDangerousKeyword(sql) THEN Return(Failure("prohibited"))
             ELSE /\ pc' = "attempt"
                  /\ result' = NoResult
    /\ UNCHANGED <<variant, lifeVars, restVars, poolVars, schemaVars, parseVars>>

\* execute_custom_sql: sql_client.execute_query returns or raises
AttemptExecuteCustomSql ==
    /\ pc = "attempt"
    /\ op = "execute_custom_sql"
    /\ \E ev \in ClientEvents(variant) \cup RaiseEvents :
          LET out == ClientOutcome(variant, sql_query, ev) IN
          /\ calls' = Append(calls, CallEntry(ev, out))
          /\ net' = net + NetworkOps(variant, sql_query, ev)
          /\ IF out.raised
             THEN /\ query_result' = query_result
                  /\ Return(CustomSqlClientFailure)
             ELSE /\ query_result' = out
                  /\ Return(FormatResult(out))
    /\ UNCHANGED <<variant, op, sql_query, attempt, retry_delay, sleeps, others, lifeVars, restVars, poolVars, schemaVars, parseVars>>

\* What the stage called inside an operation's try block does:
\* it returns its value, returns a dict carrying 'error', or raises.
StageOutcomes == {"ok", "error", "raise"}

\* MCPTools.parse_user_query around QueryParser.parse_user_query
parse_user_query(inner) ==
    CASE inner = "raise" -> OuterExcept("parse_exception")
      [] inner = "error" -> Failure("translation")
      [] OTHER           -> Success(0)

\* MCPTools.validate_query around QueryParser.parse_user_query and the assembly
validate_query(inner) ==
    CASE inner = "raise" -> OuterExcept("validate_exception")
      [] inner = "error" -> Failure("translation")
      [] OTHER           -> Success(0)

\* MCPTools.list_tables around SchemaLoader.get_enabled_tables / get_enum_values
list_tables(inner) ==
    IF inner = "raise" THEN OuterExcept("list_exception") ELSE Success(0)

\* MCPTools.get_enum_values around SchemaLoader.get_enum_values / load_table_schema
get_enum_values(inner) ==
    CASE inner = "raise" -> OuterExcept("enum_exception")
      [] inner = "error" -> Failure("no_enum")
      [] OTHER           -> Success(0)

SyncOps == {"parse_user_query", "validate_query", "list_tables", "get_enum_values"}

SyncResult(o, inner) ==
    CASE o = "parse_user_query" -> parse_user_query(inner)
      [] o = "validate_query"   -> validate_query(inner)
      [] o = "list_tables"      -> list_tables(inner)
      [] OTHER                  -> get_enum_values(inner)

\* An operation without an await: it runs from entry to return in one step
ParseUserQuery ==
    /\ pc = "idle"
    /\ \E inner \in StageOutcomes :
          /\ Begin("parse_user_query", <<>>)
          /\ Return(SyncResult("parse_user_query", inner))
    /\ UNCHANGED <<variant, lifeVars, restVars, poolVars, schemaVars, parseVars>>

ValidateQuery ==
    /\ pc = "idle"
    /\ \E inner \in StageOutcomes :
          /\ Begin("validate_query", <<>>)
          /\ Return(SyncResult("validate_query", inner))
    /\ UNCHANGED <<variant, lifeVars, restVars, poolVars, schemaVars, parseVars>>

ListTables ==
    /\ pc = "idle"
    /\ \E inner \in StageOutcomes \ {"error"} :
          /\ Begin("list_tables", <<>>)
          /\ Return(SyncResult("list_tables", inner))
    /\ UNCHANGED <<variant, lifeVars, restVars, poolVars, schemaVars, parseVars>>

GetEnumValues ==
    /\ pc = "idle"
    /\ \E inner \in StageOutcomes :
          /\ Begin("get_enum_values", <<>>)
          /\ Return(SyncResult("get_enum_values", inner))
    /\ UNCHANGED <<variant, lifeVars, restVars, poolVars, schemaVars, parseVars>>

\* The dispatcher hands the returned value to the caller; the instance
\* serves the next request
Deliver ==
    /\ pc = "returned"
    /\ pc' = "idle"
    /\ result' = NoResult
    /\ Begin("none", <<>>)
    /\ UNCHANGED <<variant, lifeVars, restVars, poolVars, schemaVars, parseVars>>

----
(* Specification of the operations of one MCPTools instance *)

CallInit ==
    /\ pc = "idle"
    /\ op = "none"
    /\ sql_query = <<>>
    /\ attempt = 0
    /\ retry_delay = initial_retry_delay
    /\ query_result = Unbound
    /\ result = NoResult
    /\ calls = <<>>
    /\ sleeps = <<>>
    /\ net = 0
    /\ others = 0

LifeInit ==
    /\ sql_client_instance = 0
    /\ tools = <<>>
    /\ clients = <<>>
    /\ uses = {}
    /\ cleanups = 0
    /\ cleaned = {}

RestInit ==
    /\ rop = "none"
    /\ rsql = <<>>
    /\ rpc = "idle"
    /\ rsteps = <<>>
    /\ rresult = [call |-> "none", tool |-> "none"]

NumCallers == 2      \* coroutines that call execute_query on the shared client

Callers == 1..NumCallers

\* ThreadPoolExecutor(max_workers=1) in src/services/sql_client.py,
\* ThreadPoolExecutor(max_workers=2) in src/sql_client.py
max_workers(v) == IF v = "services" THEN 1 ELSE 2

Workers(v) == 1..max_workers(v)

\* a worker thread that waits for work
IdleWorker == [caller |-> 0, kind |-> "idle", orphan |-> FALSE, conn |-> 0]

\* no execute_query call is in progress and the executor has no thread busy
PoolInit ==
    /\ pcall = [c \in Callers |-> [pos |-> "idle", conn |-> 0, n |-> 0]]
    /\ pqueue = <<>>
    /\ pworkers = [w \in Workers(variant) |-> IdleWorker]
    /\ conns = <<>>

\* `self._schema_cache = None`
NoCache == [none |-> TRUE, tables |-> <<>>, definitions_type |-> "dict", definitions |-> <<>>]

NoManifest == [kind |-> "none"]
NoValue == [raised |-> FALSE, value |-> <<>>]

\* no SchemaLoader has been constructed
SchemaInit ==
    /\ manifest = NoManifest
    /\ schema_cache = NoCache
    /\ opens = 0
    /\ sop = "none"
    /\ sresult = NoValue

NoParse ==
    [stage |-> "none", error |-> FALSE, table_name |-> <<>>, columns |-> <<>>, conditions |-> <<>>,
     where_clause |-> <<>>, limit_clause |-> <<>>, order_clause |-> <<>>, assembled |-> {}]

\* no question is being parsed
ParseInit ==
    /\ question = <<>>
    /\ ppc = "idle"
    /\ parsed = NoParse

Init ==
    /\ variant \in Variants
    /\ CallInit
    /\ LifeInit
    /\ RestInit
    /\ PoolInit
    /\ SchemaInit
    /\ ParseInit

Next ==
    \/ StartExecuteSqlWithAuth
    \/ AttemptExecuteSqlWithAuth
    \/ Backoff
    \/ ServeOther
    \/ StartExecuteCustomSql
    \/ AttemptExecuteCustomSql
    \/ ParseUserQuery
    \/ ValidateQuery
    \/ ListTables
    \/ GetEnumValues
    \/ Deliver

Spec == Init /\ [][Next]_vars

----
(* MCPTools construction and the class-level client *)

MaxTools == 4        \* MCPTools constructions explored
MaxCleanups == 2     \* cleanup_sql_client calls explored

\* every construction creates its own client
NeedsNewClient_always(instance) == TRUE

\* `if MCPTools._sql_client_instance is None`
NeedsNewClient(instance) == instance = 0

\* MSSQLMSIClient.close() as cleanup_sql_client observes it.  services:
\* ThreadPoolExecutor.shutdown takes no `timeout` argument, so the call
\* raises TypeError before the pool is touched and close() re-raises it.
\* legacy: the class has no close(), the attribute lookup raises.
close(v, executor) == [raised |-> TRUE, executor |-> executor]

\* MCPTools.__init__; MSSQLMSIClient() may raise, and then no MCPTools exists
Construct ==
    /\ Len(tools) < MaxTools
    /\ IF NeedsNewClient(sql_client_instance)
       THEN \E ctor_ok \in BOOLEAN :
               IF ctor_ok
               THEN /\ clients' = Append(clients, "running")
                    /\ sql_client_instance' = Len(clients) + 1
                    /\ tools' = Append(tools, Len(clients) + 1)
               ELSE UNCHANGED <<clients, sql_client_instance, tools>>
       ELSE /\ tools' = Append(tools, sql_client_instance)
            /\ UNCHANGED <<clients, sql_client_instance>>
    /\ UNCHANGED <<uses, cleanups, cleaned, callVars, restVars, poolVars, schemaVars, parseVars>>

\* MCPTools.cleanup_sql_client
Cleanup ==
    /\ cleanups < MaxCleanups
    /\ cleanups' = cleanups + 1
    /\ IF sql_client_instance # 0
       THEN LET r == close(variant, clients[sql_client_instance]) IN
            /\ clients' = [clients EXCEPT ![sql_client_instance] = r.executor]
            /\ sql_client_instance' = IF r.raised THEN sql_client_instance ELSE 0
            /\ cleaned' = cleaned \cup {[client |-> sql_client_instance, tools_before |-> Len(tools)]}
       ELSE UNCHANGED <<clients, sql_client_instance, cleaned>>
    /\ UNCHANGED <<tools, uses, callVars, restVars, poolVars, schemaVars, parseVars>>

\* A tool's operation reaches `await self.sql_client.execute_query(...)`:
\* work is submitted to the executor of the client the tool holds
Use ==
    /\ \E i \in 1..Len(tools) :
          uses' = uses \cup {[tool |-> i, client |-> tools[i], executor |-> clients[tools[i]]]}
    /\ UNCHANGED <<sql_client_instance, tools, clients, cleanups, cleaned, callVars, restVars, poolVars, schemaVars, parseVars>>

LifeNext ==
    \/ Construct
    \/ Cleanup
    \/ Use

SpecLife == Init /\ [][LifeNext]_vars

----
(* mssql_query_server.py: MSSQLRestClient and the tools that call it *)

\* What the endpoint of one strategy answers.  body: "rows" is a non-empty
\* JSON document, "empty" a JSON document that is falsy in Python ({} or []),
\* "invalid" a body response.json() raises on.
HttpResponses ==
    {[kind |-> "http", code |-> 200, body |-> b] : b \in {"rows", "empty", "invalid"}}
    \cup {[kind |-> "http", code |-> c, body |-> "none"] : c \in {401, 403, 404, 500}}
    \cup {[kind |-> k, code |-> 0, body |-> "none"] : k \in {"connect_error", "token_fail"}}

\* _try_sql_database_api / _try_management_api: the parsed body on HTTP 200,
\* None for every other status and for every exception
try_api(resp) ==
    IF resp.kind = "http" /\ resp.code = 200 /\ resp.body # "invalid"
    THEN [raised |-> FALSE, value |-> resp.body]
    ELSE [raised |-> FALSE, value |-> "none"]

try_sql_database_api(resp) == try_api(resp)
try_management_api(resp) == try_api(resp)

\* `if result:`
Truthy(value) == value = "rows"

\* execute_query_via_rest after the direct strategy: "return", "fallback" or
\* "auth_failed" (raise Exception("Authentication failed: ...")).  The except
\* clauses act on an exception leaving _try_sql_database_api.
AfterDirect(r, resp) ==
    IF r.raised
    THEN IF resp.kind = "http" /\ resp.code \in {401, 403} THEN "auth_failed" ELSE "fallback"
    ELSE IF Truthy(r.value) THEN "return" ELSE "fallback"

\* execute_query_via_rest after the management strategy
AfterManagement(r) ==
    IF r.raised THEN "management_failed"
    ELSE IF Truthy(r.value) THEN "return"
    ELSE "rest_failed"        \* "All REST API endpoints failed to connect", re-wrapped

\* The tool around execute_query_via_rest: an exception becomes an error result
ToolResult(call) == IF call = "return" THEN "success" ELSE "error"

GeneratedSqlInputs == {Sql_SelectStar, Sql_MixedCase}

RestBegin(o, sql) ==
    /\ rop' = o
    /\ rsql' = sql
    /\ rsteps' = <<>>

\* mssqlQuery up to `await sql_client.execute_query_via_rest(sql_query)`
StartMssqlQuery ==
    /\ rpc = "idle"
    /\ \E valid \in BOOLEAN, sql \in GeneratedSqlInputs :
          IF valid
          THEN /\ RestBegin("mssqlQuery", sql)
               /\ rpc' = "direct"
               /\ rresult' = [call |-> "none", tool |-> "none"]
          ELSE /\ RestBegin("mssqlQuery", <<>>)
               /\ rpc' = "done"
               /\ rresult' = [call |-> "none", tool |-> "error"]
    /\ UNCHANGED <<callVars, lifeVars, poolVars, schemaVars, parseVars>>

\* executeCustomSQLMSSQL up to `await sql_client.execute_query_via_rest(sql_query)`
StartExecuteCustomSQLMSSQL ==
    /\ rpc = "idle"
    /\ \E sql \in CustomSqlInputs :
          /\ RestBegin("executeCustomSQLMSSQL", sql)
          /\ IF ~OnlySelect(sql) \/ HasDangerousKeyword(sql)
             THEN /\ rpc' = "done"
                  /\ rresult' = [call |-> "none", tool |-> "error"]
             ELSE /\ rpc' = "direct"
                  /\ rresult' = [call |-> "none", tool |-> "none"]
    /\ UNCHANGED <<callVars, lifeVars, poolVars, schemaVars, parseVars>>

\* execute_query_via_rest: the direct strategy completes
RestDirect ==
    /\ rpc = "direct"
    /\ \E resp \in HttpResponses :
          LET next == AfterDirect(try_sql_database_api(resp), resp) IN
          /\ rsteps' = Append(rsteps, [strategy |-> "direct", resp |-> resp])
          /\ IF next = "fallback"
             THEN /\ rpc' = "management"
                  /\ rresult' = rresult
             ELSE /\ rpc' = "done"
                  /\ rresult' = [call |-> next, tool |-> ToolResult(next)]
    /\ UNCHANGED <<rop, rsql, callVars, lifeVars, poolVars, schemaVars, parseVars>>

\* execute_query_via_rest: the management strategy completes
RestManagement ==
    /\ rpc = "management"
    /\ \E resp \in HttpResponses :
          LET next == AfterManagement(try_management_api(resp)) IN
          /\ rsteps' = Append(rsteps, [strategy |-> "management", resp |-> resp])
          /\ rpc' = "done"
          /\ rresult' = [call |-> next, tool |-> ToolResult(next)]
    /\ UNCHANGED <<rop, rsql, callVars, lifeVars, poolVars, schemaVars, parseVars>>

\* The tool's result is handed to the caller
RestDeliver ==
    /\ rpc = "done"
    /\ rpc' = "idle"
    /\ RestBegin("none", <<>>)
    /\ rresult' = [call |-> "none", tool |-> "none"]
    /\ UNCHANGED <<callVars, lifeVars, poolVars, schemaVars, parseVars>>

RestNext ==
    \/ StartMssqlQuery
    \/ StartExecuteCustomSQLMSSQL
    \/ RestDirect
    \/ RestManagement
    \/ RestDeliver

SpecRest == Init /\ [][RestNext]_vars

----
(* MSSQLMSIClient.execute_query: the blocking work of several callers on   *)
(* the one ThreadPoolExecutor of the shared client                         *)

MaxCalls == 3        \* execute_query calls explored, all callers together

RECURSIVE CallsMade(_, _)
\* the execute_query calls callers 1..c have made
CallsMade(call, c) == IF c = 0 THEN 0 ELSE call[c].n + CallsMade(call, c - 1)

\* loop.run_in_executor(self._executor, fn): fn joins the executor's queue;
\* conn is the connection handed to _execute_query_sync (0: none)
WorkItem(c, k, conn) == [caller |-> c, kind |-> k, orphan |-> FALSE, conn |-> conn]

\* the worker threads that run a work item
BusyWorkers == {w \in DOMAIN pworkers : pworkers[w] # IdleWorker}

\* the phase whose await is guarded by asyncio.wait_for: the connection in
\* src/sql_client.py, the execution in src/services/sql_client.py
TimedPhase(v) == IF v = "services" THEN "execute" ELSE "connect"

\* asyncio.wait_for expired: the future is cancelled.  A work item that is
\* still queued is dropped, one that a worker already runs cannot be
\* cancelled and keeps its worker until it ends.
CancelQueued(queue, c) == SelectSeq(queue, LAMBDA item : item.caller # c)
CancelRunning(workers, c) ==
    [w \in DOMAIN workers |->
        IF workers[w].caller = c THEN [workers[w] EXCEPT !.orphan = TRUE] ELSE workers[w]]

\* pyodbc.connect returned in a worker thread; held tells whether the
\* awaiting coroutine received the connection
Opened(held) == [state |-> "open", held |-> held]

\* the finally block of execute_query: `if connection: connection.close()`
Closed(all, i) == IF i = 0 THEN all ELSE [all EXCEPT ![i].state = "closed"]

\* execute_query up to the first await: get_connection submits _connect_sync
PoolCall(c) ==
    /\ pcall[c].pos = "idle"
    /\ CallsMade(pcall, NumCallers) < MaxCalls
    /\ pcall' = [pcall EXCEPT ![c] = [pos |-> "connect", conn |-> 0, n |-> @.n + 1]]
    /\ pqueue' = Append(pqueue, WorkItem(c, "connect", 0))
    /\ UNCHANGED <<pworkers, conns, callVars, lifeVars, restVars, schemaVars, parseVars>>

\* an idle worker thread takes the oldest queued work item
PoolPick ==
    /\ pqueue # <<>>
    /\ \E w \in DOMAIN pworkers :
          /\ pworkers[w] = IdleWorker
          /\ \A u \in DOMAIN pworkers : pworkers[u] = IdleWorker => w <= u
          /\ pworkers' = [pworkers EXCEPT ![w] = Head(pqueue)]
    /\ pqueue' = Tail(pqueue)
    /\ UNCHANGED <<pcall, conns, callVars, lifeVars, restVars, schemaVars, parseVars>>

\* the blocking call a worker runs ends: _connect_sync returns a connection
\* or raises, _execute_query_sync returns its result.  The awaiting
\* coroutine goes on: after a connection it submits _execute_query_sync,
\* after the execution its finally block closes the connection.  When the
\* wait was given up, nobody receives what the call returns.
PoolFinish(w) ==
    /\ pworkers[w] # IdleWorker
    /\ pworkers' = [pworkers EXCEPT ![w] = IdleWorker]
    /\ LET item == pworkers[w]
           c == item.caller IN
       IF item.kind = "connect"
       THEN \E connected \in BOOLEAN :
               IF connected
               THEN /\ conns' = Append(conns, Opened(~item.orphan))
                    /\ IF item.orphan
                       THEN UNCHANGED <<pcall, pqueue>>
                       ELSE /\ pcall' = [pcall EXCEPT ![c].pos = "execute", ![c].conn = Len(conns) + 1]
                            /\ pqueue' = Append(pqueue, WorkItem(c, "execute", Len(conns) + 1))
               ELSE /\ pcall' = IF item.orphan THEN pcall
                                ELSE [pcall EXCEPT ![c].pos = "done"]
                    /\ UNCHANGED <<pqueue, conns>>
       ELSE IF item.orphan
            THEN UNCHANGED <<pcall, pqueue, conns>>
            ELSE /\ pcall' = [pcall EXCEPT ![c].pos = "done"]
                 /\ conns' = Closed(conns, item.conn)
                 /\ UNCHANGED pqueue
    /\ UNCHANGED <<callVars, lifeVars, restVars, schemaVars, parseVars>>

\* asyncio.wait_for gives up on the caller's work: the call ends with an
\* error result and its finally block closes the connection it holds
PoolTimeout(c) ==
    /\ pcall[c].pos = TimedPhase(variant)
    /\ pcall' = [pcall EXCEPT ![c].pos = "done"]
    /\ pqueue' = CancelQueued(pqueue, c)
    /\ pworkers' = CancelRunning(pworkers, c)
    /\ conns' = Closed(conns, pcall[c].conn)
    /\ UNCHANGED <<callVars, lifeVars, restVars, schemaVars, parseVars>>

\* execute_query returns its result dictionary to the caller
PoolReturn(c) ==
    /\ pcall[c].pos = "done"
    /\ pcall' = [pcall EXCEPT ![c].pos = "idle", ![c].conn = 0]
    /\ UNCHANGED <<pqueue, pworkers, conns, callVars, lifeVars, restVars, schemaVars, parseVars>>

\* The interpreter finalizes a connection object that nothing refers to
\* (the result of a future whose wait was given up), and pyodbc closes a
\* connection when its object is finalized.  The language leaves open when,
\* and whether, an unreachable object is finalized.
PoolFinalize ==
    /\ \E i \in 1..Len(conns) :
          /\ conns[i].state = "open"
          /\ ~conns[i].held
          /\ conns' = [conns EXCEPT ![i].state = "finalized"]
    /\ UNCHANGED <<pcall, pqueue, pworkers, callVars, lifeVars, restVars, schemaVars, parseVars>>

PoolNext ==
    \/ \E c \in Callers : PoolCall(c)
    \/ PoolPick
    \/ \E w \in DOMAIN pworkers : PoolFinish(w)
    \/ \E c \in Callers : PoolTimeout(c)
    \/ \E c \in Callers : PoolReturn(c)
    \/ PoolFinalize

SpecPool == Init /\ [][PoolNext]_vars

\* The worker threads run, every blocking call ends (pyodbc gives up at its
\* own timeouts) and a coroutine whose await is done is resumed.  Nothing
\* obliges a caller to call again, a wait to expire, or the interpreter to
\* finalize an object.
PoolFairness ==
    /\ WF_vars(PoolPick)
    /\ \A w \in Workers("legacy") : WF_vars(w \in DOMAIN pworkers /\ PoolFinish(w))
    /\ \A c \in Callers : WF_vars(PoolReturn(c))

SpecPoolFair == SpecPool /\ PoolFairness

----
(* SchemaLoader (src/schema_loader.py): the manifest and the catalog *)

N_MonthProduct == <<"A","M","E","C","o","n","c","i","s","e","S","u","b","R","e","q","C","C","I","D","C","o","u","n","t","B","y","M","o","n","t","h","P","r","o","d","u","c","t">>
N_MonthProductOS == <<"A","M","E","C","o","n","c","i","s","e","S","u","b","R","e","q","C","C","I","D","C","o","u","n","t","B","y","M","o","n","t","h","P","r","o","d","u","c","t","O","S">>
N_ProviderTrackInfo == <<"A","M","E","C","o","n","c","i","s","e","S","u","b","R","e","q","C","C","I","D","C","o","u","n","t","B","y","M","o","n","t","h","P","r","o","d","u","c","t","P","r","o","v","i","d","e","r","T","r","a","c","k","I","n","f","o">>
N_Customer == <<"A","M","E","C","o","n","c","i","s","e","F","i","t","e","r","e","d","N","e","w","P","r","o","d","u","c","t","C","C","I","D","C","u","s","t","o","m","e","r">>
N_Unknown == <<"N","o","S","u","c","h","T","a","b","l","e">>

C_Month == <<"M","o","n","t","h">>
C_Product == <<"P","r","o","d","u","c","t">>
C_RequestCount == <<"R","e","q","u","e","s","t","C","o","u","n","t">>
C_SubscriptionCount == <<"S","u","b","s","c","r","i","p","t","i","o","n","C","o","u","n","t">>
C_RequestCounts == <<"R","e","q","u","e","s","t","C","o","u","n","t","s">>
C_CCIDCount == <<"C","C","I","D","C","o","u","n","t">>
C_RequestsDate == <<"R","e","q","u","e","s","t","s","D","a","t","e">>
C_TrackInfo == <<"T","r","a","c","k","I","n","f","o">>
C_Provider == <<"P","r","o","v","i","d","e","r">>
C_Resource == <<"R","e","s","o","u","r","c","e">>
C_HttpMethod == <<"H","t","t","p","M","e","t","h","o","d">>
C_OS == <<"O","S">>
C_Star == <<"*">>

E_GoSDK == <<"G","o","-","S","D","K">>
E_PythonSDK == <<"P","y","t","h","o","n","-","S","D","K">>
E_JavaScript == <<"J","a","v","a","S","c","r","i","p","t">>
E_Track1 == <<"T","r","a","c","k","1">>
E_Track2 == <<"T","r","a","c","k","2">>
E_Windows == <<"W","i","n","d","o","w","s">>
E_Linux == <<"L","i","n","u","x">>
E_Nope == <<"N","o","p","e">>

\* one entry of the manifest's Tables array; enabled is the string the
\* manifest holds, "absent" when the entry has no such key
Tbl(name, enabled, description, columns) ==
    [TableName |-> name, enabled |-> enabled, Description |-> description, Columns |-> columns]

\* one entry of a table's Columns array; ref is the name behind
\* '#/definitions/', empty when the column has no $ref
Col(name, ref) == [ColumnName |-> name, ref |-> ref]

\* one entry of the manifest's definitions map
Def(name, titled, title, description, enum) ==
    [name |-> name, titled |-> titled, title |-> title, description |-> description, enum |-> enum]

Def_Product == Def(C_Product, FALSE, <<>>, <<>>, <<E_GoSDK, E_PythonSDK, E_JavaScript>>)
Def_OS == Def(C_OS, TRUE, <<"O","p","e","r","a","t","i","n","g"," ","S","y","s","t","e","m">>, <<"C","l","i","e","n","t"," ","o","p","e","r","a","t","i","n","g"," ","s","y","s","t","e","m">>, <<E_Windows, E_Linux>>)
Def_TrackInfo == Def(C_TrackInfo, FALSE, <<>>, <<>>, <<E_Track1, E_Track2>>)

Tbl_MonthProduct(enabled) ==
    Tbl(N_MonthProduct, enabled, <<"R","e","q","u","e","s","t"," ","a","n","d"," ","s","u","b","s","c","r","i","p","t","i","o","n"," ","c","o","u","n","t","s"," ","b","y"," ","m","o","n","t","h"," ","a","n","d"," ","p","r","o","d","u","c","t">>,
        <<Col(C_Month, <<>>), Col(C_Product, C_Product), Col(C_RequestCount, <<>>),
          Col(C_SubscriptionCount, <<>>)>>)

Tbl_MonthProductOS ==
    Tbl(N_MonthProductOS, "true", <<"R","e","q","u","e","s","t"," ","c","o","u","n","t","s"," ","b","y"," ","m","o","n","t","h",","," ","p","r","o","d","u","c","t"," ","a","n","d"," ","O","S">>,
        <<Col(C_Month, <<>>), Col(C_Product, C_Product), Col(C_OS, C_OS), Col(C_RequestCount, <<>>)>>)

Tbl_ProviderTrackInfo ==
    Tbl(N_ProviderTrackInfo, "absent", <<"R","e","q","u","e","s","t"," ","c","o","u","n","t","s"," ","b","y"," ","p","r","o","v","i","d","e","r",","," ","r","e","s","o","u","r","c","e"," ","a","n","d"," ","t","r","a","c","k">>,
        <<Col(C_Month, <<>>), Col(C_Provider, <<>>), Col(C_Resource, <<>>), Col(C_TrackInfo, C_TrackInfo),
          Col(C_RequestCount, <<>>), Col(C_SubscriptionCount, <<>>)>>)

Tbl_Customer(enabled) ==
    Tbl(N_Customer, enabled, <<"C","u","s","t","o","m","e","r","s"," ","b","y"," ","d","a","y">>,
        <<Col(C_RequestsDate, <<>>), Col(C_CCIDCount, <<>>)>>)

Document(tables, definitions_type, definitions) ==
    [kind |-> "document", Tables |-> tables, definitions_type |-> definitions_type,
     definitions |-> definitions]

\* a manifest that is not there, cannot be read, is not JSON, is JSON but
\* not an object, or has a table entry without 'TableName'
FailureKinds == {"missing", "unreadable", "not_json", "not_object", "no_table_name"}

Failure_Manifest(k) == [kind |-> k, Tables |-> <<>>, definitions_type |-> "dict", definitions |-> <<>>]

Doc_Product == Document(<<Tbl_MonthProduct("true")>>, "dict", <<Def_Product>>)
Doc_Family ==
    Document(<<Tbl_MonthProduct("true"), Tbl_MonthProductOS, Tbl_Customer("false")>>, "dict",
             <<Def_Product, Def_OS>>)
Doc_Provider == Document(<<Tbl_ProviderTrackInfo>>, "dict", <<Def_TrackInfo>>)
Doc_Customer == Document(<<Tbl_Customer("true"), Tbl_MonthProduct("true")>>, "dict", <<Def_Product>>)
Doc_Offline == Document(<<Tbl_MonthProduct("false"), Tbl_Customer("false")>>, "dict", <<Def_Product>>)
\* a manifest whose `definitions` is a JSON array and not a map
Doc_DefinitionsArray == Document(<<Tbl_Customer("true")>>, "list", <<>>)

Documents == {Doc_Product, Doc_Family, Doc_Provider, Doc_Customer, Doc_Offline, Doc_DefinitionsArray}

Manifests == {Failure_Manifest(k) : k \in FailureKinds} \cup Documents

\* `ref in definitions`
HasDefinition(m, ref) ==
    /\ m.definitions_type = "dict"
    /\ \E i \in 1..Len(m.definitions) : m.definitions[i].name = ref

DefinitionOf(m, ref) ==
    m.definitions[CHOOSE i \in 1..Len(m.definitions) : m.definitions[i].name = ref]

\* the column_metadata entry of one column: title defaults to the column name
ColumnMeta(m, col) ==
    LET d == DefinitionOf(m, col.ref) IN
    [column |-> col.ColumnName,
     title |-> IF d.titled THEN d.title ELSE col.ColumnName,
     description |-> d.description]

\* TableInfo(name=..., enabled=..., description=..., columns=..., column_metadata=...)
TableInfo(m, table) ==
    LET withMeta == SelectSeq(table.Columns, LAMBDA col : HasDefinition(m, col.ref)) IN
    [name |-> table.TableName,
     enabled |-> table.enabled \in {"true", "absent"},
     description |-> table.Description,
     columns |-> [i \in 1..Len(table.Columns) |-> table.Columns[i].ColumnName],
     column_metadata |-> [i \in 1..Len(withMeta) |-> ColumnMeta(m, withMeta[i])]]

\* `schema_dict[key] = value`: a new key goes last, a known key keeps its place
DictSet(d, key, value) ==
    IF \E i \in 1..Len(d) : d[i].key = key
    THEN [i \in 1..Len(d) |-> IF d[i].key = key THEN [key |-> key, value |-> value] ELSE d[i]]
    ELSE Append(d, [key |-> key, value |-> value])

RECURSIVE SchemaDict(_, _, _)

\* the loop over schema_data['Tables'], from entry i on
SchemaDict(m, i, d) ==
    IF i > Len(m.Tables)
    THEN d
    ELSE SchemaDict(m, i + 1, DictSet(d, Lower(m.Tables[i].TableName), TableInfo(m, m.Tables[i])))

\* a loaded catalog
Catalog(tables, definitions_type, definitions) ==
    [none |-> FALSE, tables |-> tables, definitions_type |-> definitions_type,
     definitions |-> definitions]

\* `{'tables': {}, 'definitions': {}}`
EmptyCatalog == Catalog(<<>>, "dict", <<>>)

\* the body of the try block of load_table_schema: the value it builds, or
\* that an exception left it
ParseManifest(m) ==
    IF m.kind \in FailureKinds
    THEN [raised |-> TRUE, value |-> EmptyCatalog]
    ELSE [raised |-> FALSE,
          value |-> Catalog(SchemaDict(m, 1, <<>>), m.definitions_type, m.definitions)]

\* open(schema_file, 'r') succeeds
Opens(m) == m.kind \notin {"missing", "unreadable"}

\* SchemaLoader.load_table_schema: the value returned, the cache afterwards
\* and whether the manifest file was opened
load_table_schema(cache, m) ==
    IF ~cache.none
    THEN [value |-> cache, cache |-> cache, opened |-> FALSE]
    ELSE LET r == ParseManifest(m) IN
         IF r.raised
         THEN [value |-> EmptyCatalog, cache |-> cache, opened |-> Opens(m)]
         ELSE [value |-> r.value, cache |-> r.value, opened |-> TRUE]

\* SchemaLoader.get_enum_values, given the loaded schema:
\* definitions.get(enum_name, {}).get('enum', []); a list has no get()
SchemaLoader_get_enum_values(schema, enum_name) ==
    IF schema.definitions_type # "dict"
    THEN [raised |-> TRUE, value |-> <<>>]
    ELSE LET hits == SelectSeq(schema.definitions, LAMBDA d : d.name = enum_name) IN
         [raised |-> FALSE, value |-> IF hits = <<>> THEN <<>> ELSE hits[1].enum]

\* SchemaLoader.get_enabled_tables, given the loaded schema
get_enabled_tables(schema) == SelectSeq(schema.tables, LAMBDA e : e.value.enabled)

\* `tables.get(table_name.lower())`: the TableInfo, or None
NoTableInfo ==
    [name |-> <<>>, enabled |-> FALSE, description |-> <<>>, columns |-> <<>>,
     column_metadata |-> <<>>]

get_table_info(schema, table_name) ==
    LET hits == SelectSeq(schema.tables, LAMBDA e : e.key = Lower(table_name)) IN
    IF hits = <<>> THEN NoTableInfo ELSE hits[1].value

MaxOpens == 3        \* SchemaLoader calls that open the manifest explored

EnumNameInputs == {C_Product, C_OS, E_Nope}
TableNameInputs == {N_MonthProduct, Lower(N_Customer), N_Unknown}

\* SchemaLoader(schema_file_path) is constructed over the manifest in place
NewSchemaLoader ==
    /\ manifest = NoManifest
    /\ manifest' \in Manifests
    /\ schema_cache' = NoCache
    /\ UNCHANGED <<opens, sop, sresult, callVars, lifeVars, restVars, poolVars, parseVars>>

\* what every SchemaLoader method starts with: `schema = self.load_table_schema()`
Loaded(r) ==
    /\ manifest # NoManifest
    /\ opens < MaxOpens
    /\ schema_cache' = r.cache
    /\ opens' = IF r.opened THEN opens + 1 ELSE opens
    /\ UNCHANGED <<manifest, callVars, lifeVars, restVars, poolVars, parseVars>>

LoadTableSchema ==
    LET r == load_table_schema(schema_cache, manifest) IN
    /\ Loaded(r)
    /\ sop' = "load_table_schema"
    /\ sresult' = [raised |-> FALSE, value |-> r.value]

LoaderGetEnumValues ==
    LET r == load_table_schema(schema_cache, manifest) IN
    /\ Loaded(r)
    /\ sop' = "get_enum_values"
    /\ \E enum_name \in EnumNameInputs :
          sresult' = SchemaLoader_get_enum_values(r.value, enum_name)

GetEnabledTables ==
    LET r == load_table_schema(schema_cache, manifest) IN
    /\ Loaded(r)
    /\ sop' = "get_enabled_tables"
    /\ sresult' = [raised |-> FALSE, value |-> get_enabled_tables(r.value)]

GetTableInfo ==
    LET r == load_table_schema(schema_cache, manifest) IN
    /\ Loaded(r)
    /\ sop' = "get_table_info"
    /\ \E table_name \in TableNameInputs :
          sresult' = [raised |-> FALSE, value |-> get_table_info(r.value, table_name)]

SchemaNext ==
    \/ NewSchemaLoader
    \/ LoadTableSchema
    \/ LoaderGetEnumValues
    \/ GetEnabledTables
    \/ GetTableInfo

SpecSchema == Init /\ [][SchemaNext]_vars

----
(* str and re operations the query parser relies on *)

Digits == {"0", "1", "2", "3", "4", "5", "6", "7", "8", "9"}

\* \d
IsDigit(c) == c \in Digits

\* \w
IsWordChar(c) ==
    \/ IsDigit(c)
    \/ c = "_"
    \/ \E i \in 1..26 : LowerLetters[i] = c \/ UpperLetters[i] = c

\* \s
IsSpace(c) == c = " "

IsNotSpace(c) == c # " "

UpperChar(c) ==
    IF \E i \in 1..26 : LowerLetters[i] = c
    THEN UpperLetters[CHOOSE i \in 1..26 : LowerLetters[i] = c]
    ELSE c

\* str.capitalize()
Capitalize(s) == [i \in 1..Len(s) |-> IF i = 1 THEN UpperChar(s[i]) ELSE LowerChar(s[i])]

\* x in list
InList(x, list) == \E i \in 1..Len(list) : list[i] = x

\* any(word in s for word in words)
ContainsAny(s, words) == \E i \in 1..Len(words) : Contains(s, words[i])

\* a greedy quantifier: the index of the last character of the longest run
\* of Class characters that starts at i, i - 1 when there is none
RunEnd(s, i, Class(_)) ==
    LET ends == {j \in (i - 1)..Len(s) : \A k \in i..j : Class(s[k])}
    IN  CHOOSE j \in ends : \A k \in ends : k <= j

\* str.split(): the words of s
Split(s) ==
    {SubSeq(s, i, RunEnd(s, i, IsNotSpace)) :
        i \in {k \in 1..Len(s) : s[k] # " " /\ (k = 1 \/ s[k - 1] = " ")}}

\* the regular expression  phrase\s+(\d+)  matched at index i: group 1,
\* empty when it does not match there
PhraseNumberAt(s, i, phrase) ==
    LET a == i + Len(phrase)
        b == RunEnd(s, a, IsSpace)
        c == RunEnd(s, b + 1, IsDigit)
    IN  IF a - 1 <= Len(s) /\ SubSeq(s, i, a - 1) = phrase /\ b >= a /\ c >= b + 1
        THEN SubSeq(s, b + 1, c)
        ELSE <<>>

\* re.search(r'(?:p1|p2|...)\s+(\d+)', s): group 1 of the leftmost match,
\* the alternatives tried in order; empty when there is no match
SearchPhraseNumber(s, phrases) ==
    LET hit(i, k) == PhraseNumberAt(s, i, phrases[k]) # <<>>
        starts == {i \in 1..Len(s) : \E k \in 1..Len(phrases) : hit(i, k)}
    IN  IF starts = {}
        THEN <<>>
        ELSE LET i == CHOOSE x \in starts : \A y \in starts : x <= y
                 k == CHOOSE x \in 1..Len(phrases) :
                         hit(i, x) /\ \A y \in 1..(x - 1) : ~hit(i, y)
             IN  PhraseNumberAt(s, i, phrases[k])

\* the regular expression  phrase(\w+)  or  phrase\s+(\w+)  matched at i
PhraseWordAt(s, i, phrase, spaced) ==
    LET a == i + Len(phrase)
        b == IF spaced THEN RunEnd(s, a, IsSpace) ELSE a - 1
        c == RunEnd(s, b + 1, IsWordChar)
    IN  IF a - 1 <= Len(s) /\ SubSeq(s, i, a - 1) = phrase /\ (spaced => b >= a) /\ c >= b + 1
        THEN SubSeq(s, b + 1, c)
        ELSE <<>>

\* re.findall(...)[0] for those expressions: group 1 of the leftmost match
FirstPhraseWord(s, phrase, spaced) ==
    LET starts == {i \in 1..Len(s) : PhraseWordAt(s, i, phrase, spaced) # <<>>}
    IN  IF starts = {}
        THEN <<>>
        ELSE PhraseWordAt(s, CHOOSE x \in starts : \A y \in starts : x <= y, phrase, spaced)

\* re.findall(r'w1|w2|...', s)[0]: the leftmost occurrence of one of the words
FirstOfWords(s, words) ==
    LET at(i, k) == i + Len(words[k]) - 1 <= Len(s) /\ SubSeq(s, i, i + Len(words[k]) - 1) = words[k]
        starts == {i \in 1..Len(s) : \E k \in 1..Len(words) : at(i, k)}
    IN  IF starts = {}
        THEN <<>>
        ELSE LET i == CHOOSE x \in starts : \A y \in starts : x <= y
                 k == CHOOSE x \in 1..Len(words) : at(i, x) /\ \A y \in 1..(x - 1) : ~at(i, y)
             IN  words[k]

\* a fixed-width expression of \d and literal characters ("d" stands for
\* \d) matched at index i
ShapeAt(s, i, shape) ==
    /\ i + Len(shape) - 1 <= Len(s)
    /\ \A k \in 1..Len(shape) :
          IF shape[k] = "d" THEN IsDigit(s[i + k - 1]) ELSE s[i + k - 1] = shape[k]

\* \d{4}-\d{2}-\d{2} | \d{4}-\d{2} | \d{4}/\d{2}
DateShapes == <<<<"d","d","d","d","-","d","d","-","d","d">>, <<"d","d","d","d","-","d","d">>, <<"d","d","d","d","/","d","d">>>>

\* the alternative of the date expression that matches at index i, 0 if none
DateShapeAt(s, i) ==
    IF \E k \in 1..Len(DateShapes) : ShapeAt(s, i, DateShapes[k])
    THEN CHOOSE k \in 1..Len(DateShapes) :
            ShapeAt(s, i, DateShapes[k]) /\ \A y \in 1..(k - 1) : ~ShapeAt(s, i, DateShapes[y])
    ELSE 0

RECURSIVE FindAllDates(_, _)

\* re.findall of the date expression from index i on: the matches, left to
\* right, none overlapping another
FindAllDates(s, i) ==
    IF i > Len(s)
    THEN <<>>
    ELSE LET k == DateShapeAt(s, i) IN
         IF k = 0
         THEN FindAllDates(s, i + 1)
         ELSE <<SubSeq(s, i, i + Len(DateShapes[k]) - 1)>> \o FindAllDates(s, i + Len(DateShapes[k]))

----
(* ProductAliasMapper (src/data/product_aliases.py) *)

Alias(alias, products) == [alias |-> alias, products |-> products]

alias_mappings == <<
    Alias(<<"j","s">>, <<<<"J","a","v","a","S","c","r","i","p","t">>, <<"J","a","v","a","S","c","r","i","p","t"," ","(","N","o","d","e",".","J","S",")">>, <<"J","a","v","a","S","c","r","i","p","t"," ","R","L","C">>>>),
    Alias(<<"j","a","v","a","s","c","r","i","p","t">>, <<<<"J","a","v","a","S","c","r","i","p","t">>, <<"J","a","v","a","S","c","r","i","p","t"," ","(","N","o","d","e",".","J","S",")">>, <<"J","a","v","a","S","c","r","i","p","t"," ","R","L","C">>>>),
    Alias(<<"n","o","d","e">>, <<<<"J","a","v","a","S","c","r","i","p","t"," ","(","N","o","d","e",".","J","S",")">>>>),
    Alias(<<"n","o","d","e","j","s">>, <<<<"J","a","v","a","S","c","r","i","p","t"," ","(","N","o","d","e",".","J","S",")">>>>),
    Alias(<<"n","o","d","e",".","j","s">>, <<<<"J","a","v","a","S","c","r","i","p","t"," ","(","N","o","d","e",".","J","S",")">>>>),
    Alias(<<"r","l","c">>, <<<<"J","a","v","a","S","c","r","i","p","t"," ","R","L","C">>>>),
    Alias(<<".","n","e","t">>, <<<<".","N","e","t"," ","C","o","d","e","-","g","e","n">>, <<".","N","e","t"," ","F","l","u","e","n","t">>>>),
    Alias(<<"d","o","t","n","e","t">>, <<<<".","N","e","t"," ","C","o","d","e","-","g","e","n">>, <<".","N","e","t"," ","F","l","u","e","n","t">>>>),
    Alias(<<"c","s","h","a","r","p">>, <<<<".","N","e","t"," ","C","o","d","e","-","g","e","n">>, <<".","N","e","t"," ","F","l","u","e","n","t">>>>),
    Alias(<<"c","#">>, <<<<".","N","e","t"," ","C","o","d","e","-","g","e","n">>, <<".","N","e","t"," ","F","l","u","e","n","t">>>>),
    Alias(<<"n","e","t">>, <<<<".","N","e","t"," ","C","o","d","e","-","g","e","n">>, <<".","N","e","t"," ","F","l","u","e","n","t">>>>),
    Alias(<<"j","a","v","a">>, <<<<"J","a","v","a"," ","F","l","u","e","n","t"," ","L","i","t","e">>, <<"J","a","v","a"," ","F","l","u","e","n","t"," ","P","r","e","m","i","u","m">>>>),
    Alias(<<"p","y","t","h","o","n">>, <<<<"P","y","t","h","o","n","-","S","D","K">>>>),
    Alias(<<"p","y">>, <<<<"P","y","t","h","o","n","-","S","D","K">>>>),
    Alias(<<"g","o">>, <<<<"G","o","-","S","D","K">>>>),
    Alias(<<"g","o","l","a","n","g">>, <<<<"G","o","-","S","D","K">>>>),
    Alias(<<"p","h","p">>, <<<<"P","H","P","-","S","D","K">>>>),
    Alias(<<"r","u","b","y">>, <<<<"R","u","b","y","-","S","D","K">>>>),
    Alias(<<"r","b">>, <<<<"R","u","b","y","-","S","D","K">>>>),
    Alias(<<"r","u","s","t">>, <<<<"R","u","s","t">>>>),
    Alias(<<"r","s">>, <<<<"R","u","s","t">>>>),
    Alias(<<"c","l","i">>, <<<<"A","z","u","r","e","C","L","I">>>>),
    Alias(<<"a","z","u","r","e","-","c","l","i">>, <<<<"A","z","u","r","e","C","L","I">>>>),
    Alias(<<"a","z">>, <<<<"A","z","u","r","e","C","L","I">>>>),
    Alias(<<"p","o","w","e","r","s","h","e","l","l">>, <<<<"A","z","u","r","e","P","o","w","e","r","s","h","e","l","l">>>>),
    Alias(<<"p","s">>, <<<<"A","z","u","r","e","P","o","w","e","r","s","h","e","l","l">>>>),
    Alias(<<"p","w","s","h">>, <<<<"A","z","u","r","e","P","o","w","e","r","s","h","e","l","l">>>>),
    Alias(<<"t","e","r","r","a","f","o","r","m">>, <<<<"T","e","r","r","a","f","o","r","m">>>>),
    Alias(<<"t","f">>, <<<<"T","e","r","r","a","f","o","r","m">>>>),
    Alias(<<"a","n","s","i","b","l","e">>, <<<<"A","n","s","i","b","l","e">>>>),
    Alias(<<"v","s","c","o","d","e">>, <<<<"V","S"," ","C","o","d","e"," ","A","z","u","r","e"," ","E","x","t","e","n","s","i","o","n">>>>),
    Alias(<<"v","s","-","c","o","d","e">>, <<<<"V","S"," ","C","o","d","e"," ","A","z","u","r","e"," ","E","x","t","e","n","s","i","o","n">>>>),
    Alias(<<"v","i","s","u","a","l","-","s","t","u","d","i","o","-","c","o","d","e">>, <<<<"V","S"," ","C","o","d","e"," ","A","z","u","r","e"," ","E","x","t","e","n","s","i","o","n">>>>) >>

\* ProductAliasMapper.find_products_by_query: the set matched_products.
\* Products named in the text win; aliases count only when none is named.
find_products_by_query(query_text, available_products) ==
    LET query_lower == Lower(query_text)
        direct == {available_products[i] : i \in {k \in 1..Len(available_products) :
                                                    Contains(query_lower, Lower(available_products[k]))}}
        aliased == {p \in {available_products[i] : i \in 1..Len(available_products)} :
                      \E a \in 1..Len(alias_mappings) :
                          /\ Contains(query_lower, alias_mappings[a].alias)
                          /\ InList(p, alias_mappings[a].products)}
    IN  IF direct # {} THEN direct ELSE aliased

\* list(matched_products): the orders in which a set can be listed; the
\* order of a set of strings is that of their hashes, which differ from
\* one interpreter run to the next
Listings(S) ==
    {order \in [1..Cardinality(S) -> S] : \A i, j \in 1..Cardinality(S) : i # j => order[i] # order[j]}

----
(* QueryParser (src/query_parser.py) *)

\* find_table_by_name returning None
NotFound == <<>>

\* W(cond, n): `if cond: score += n`
W(cond, n) == IF cond THEN n ELSE 0

\* QueryParser._get_enum_values
QueryParser_get_enum_values(schema, enum_name) == SchemaLoader_get_enum_values(schema, enum_name).value

\* the direct table name match of find_table_by_name for one enabled table
DirectMatch(query_lower, table_key, table_info) ==
    Contains(query_lower, table_key) \/ Contains(query_lower, Lower(table_info.name))

\* the score find_table_by_name gives one enabled table
TableScore(query_lower, table_info, schema) ==
    LET table_name == Lower(table_info.name)
        description == Lower(table_info.description)
        columns == table_info.columns
        In(word) == Contains(query_lower, word)
        available_products == QueryParser_get_enum_values(schema, C_Product)
    IN    W(In(<<"p","r","o","d","u","c","t">>) /\ Contains(table_name, <<"p","r","o","d","u","c","t">>), 2)
        + W(In(<<"c","u","s","t","o","m","e","r">>) /\ Contains(table_name, <<"c","u","s","t","o","m","e","r">>), 2)
        + W(In(<<"s","u","b","s","c","r","i","p","t","i","o","n">>) /\ Contains(table_name, <<"s","u","b","s","c","r","i","p","t","i","o","n">>), 2)
        + W(In(<<"g","o">>) /\ Contains(table_name, <<"g","o","s","d","k">>), 3)
        + W(/\ InList(C_Product, columns)
            /\ available_products # <<>>
            /\ find_products_by_query(query_lower, available_products) # {}, 3)
        + W(In(<<"r","e","q","u","e","s","t">>) /\ (Contains(table_name, <<"r","e","q">>) \/ Contains(description, <<"r","e","q","u","e","s","t">>)), 1)
        + W(In(<<"c","o","u","n","t">>) /\ Contains(table_name, <<"c","o","u","n","t">>), 1)
        + W(In(<<"t","r","a","c","k">>) /\ Contains(table_name, <<"t","r","a","c","k">>), 1)
        + W(In(<<"a","p","i">>) /\ Contains(table_name, <<"a","p","i">>), 1)
        + W(In(<<"v","e","r","s","i","o","n">>) /\ Contains(table_name, <<"v","e","r","s","i","o","n">>), 1)
        + W(In(<<"l","a","n","g","u","a","g","e">>) /\ Contains(table_name, <<"l","a","n","g","u","a","g","e">>), 1)
        + W(In(<<"o","s">>) /\ Contains(table_name, <<"o","s">>), 1)
        + W(In(<<"p","r","o","v","i","d","e","r">>) /\ Contains(table_name, <<"p","r","o","v","i","d","e","r">>), 1)
        + W(In(<<"p","r","o","v","i","d","e","r">>) /\ InList(C_Provider, columns), 1)
        + W(In(<<"r","e","s","o","u","r","c","e">>) /\ InList(C_Resource, columns), 1)
        + W(In(<<"h","t","t","p">>) /\ InList(C_HttpMethod, columns), 1)
        + W(In(<<"m","e","t","h","o","d">>) /\ InList(C_HttpMethod, columns), 1)
        + W(In(<<"o","s">>) /\ InList(C_OS, columns), 1)

\* max(table_scores.items(), key=lambda x: x[1])[0]: the first of the
\* entries with the highest score
FirstMax(entries, Score(_)) ==
    entries[CHOOSE i \in 1..Len(entries) :
               /\ \A j \in 1..Len(entries) : Score(entries[j]) <= Score(entries[i])
               /\ \A j \in 1..(i - 1) : Score(entries[j]) < Score(entries[i])]

\* the fallback takes the last enabled table
Fallback_last(enabled_tables) ==
    IF enabled_tables # <<>> THEN enabled_tables[Len(enabled_tables)].value.name ELSE NotFound

\* `if enabled_tables: return list(enabled_tables.values())[0].name` and
\* the `return None` after it
Fallback(enabled_tables) ==
    IF enabled_tables # <<>> THEN enabled_tables[1].value.name ELSE NotFound

\* QueryParser.find_table_by_name
find_table_by_name(query_text, schema) ==
    LET query_lower == Lower(query_text)
        enabled_tables == get_enabled_tables(schema)
        Score(e) == TableScore(query_lower, e.value, schema)
        direct == SelectSeq(enabled_tables, LAMBDA e : DirectMatch(query_lower, e.key, e.value))
        table_scores == SelectSeq(enabled_tables, LAMBDA e : Score(e) > 0)
    IN  IF direct # <<>> THEN direct[1].value.name
        ELSE IF table_scores # <<>> THEN FirstMax(table_scores, Score).value.name
        ELSE Fallback(enabled_tables)

\* `if cond: if col in available_columns: intent_columns.append(col)`
Intent(cond, col, available_columns) ==
    IF cond /\ InList(col, available_columns) THEN <<col>> ELSE <<>>

\* list[:n]
Take(list, n) == SubSeq(list, 1, IF Len(list) < n THEN Len(list) ELSE n)

\* the test extract_columns_from_query makes for one column of the table
Mentioned(query_lower, col, column_metadata) ==
    \/ Contains(query_lower, Lower(col))
    \/ \E i \in 1..Len(column_metadata) :
          /\ column_metadata[i].column = col
          /\ \/ Contains(query_lower, Lower(column_metadata[i].title))
             \/ \E word \in Split(query_lower) : Contains(Lower(column_metadata[i].description), word)

\* QueryParser.extract_columns_from_query
extract_columns_from_query(query_text, table_name, schema) ==
    LET table_info == get_table_info(schema, table_name)
        available_columns == table_info.columns
        query_lower == Lower(query_text)
        AnyOf(words) == ContainsAny(query_lower, words)
        mentioned_columns ==
            SelectSeq(available_columns,
                      LAMBDA col : Mentioned(query_lower, col, table_info.column_metadata))
        intent ==
            Intent(AnyOf(<<<<"p","r","o","d","u","c","t">>, <<"s","d","k">>, <<"t","o","o","l">>>>), C_Product, available_columns)
            \o Intent(AnyOf(<<<<"t","r","a","c","k">>, <<"v","e","r","s","i","o","n">>>>), C_TrackInfo, available_columns)
            \o Intent(AnyOf(<<<<"p","r","o","v","i","d","e","r">>, <<"s","e","r","v","i","c","e">>>>), C_Provider, available_columns)
            \o Intent(AnyOf(<<<<"r","e","s","o","u","r","c","e">>, <<"t","y","p","e">>>>), C_Resource, available_columns)
            \o Intent(AnyOf(<<<<"m","e","t","h","o","d">>, <<"h","t","t","p">>, <<"g","e","t">>, <<"p","o","s","t">>, <<"p","u","t">>, <<"d","e","l","e","t","e">>>>),
                      C_HttpMethod, available_columns)
            \o Intent(AnyOf(<<<<"o","s">>, <<"o","p","e","r","a","t","i","n","g">>, <<"s","y","s","t","e","m">>, <<"w","i","n","d","o","w","s">>, <<"l","i","n","u","x">>, <<"m","a","c">>>>),
                      C_OS, available_columns)
        key_columns == <<C_Month, C_RequestCount, C_SubscriptionCount>>
        intent_columns ==
            intent \o SelectSeq(key_columns,
                                LAMBDA col : InList(col, available_columns) /\ ~InList(col, intent))
        priority_columns == <<C_Month, C_Product, C_RequestCount, C_SubscriptionCount, C_TrackInfo>>
    IN  IF table_info = NoTableInfo THEN <<C_Star>>
        ELSE IF mentioned_columns # <<>> THEN mentioned_columns
        ELSE IF intent_columns # <<>> THEN intent_columns
        ELSE Take(SelectSeq(priority_columns, LAMBDA col : InList(col, available_columns)), 5)

Quoted(s) == <<"'">> \o s \o <<"'">>
Like(col, s) == col \o <<" ","L","I","K","E"," ","'","%">> \o s \o <<"%","'">>
Equals(col, s) == col \o <<" ","="," ">> \o Quoted(s)

\* the condition for one date found in the question
MonthCondition(month) ==
    IF Len(month) = 7
    THEN C_Month \o <<" ","L","I","K","E"," ","'">> \o month \o <<"%","'">>
    ELSE Equals(C_Month, month)

\* the condition for the products matched, listed in the given order
ProductConditions(matched_products) ==
    IF matched_products = <<>> THEN <<>>
    ELSE IF Len(matched_products) = 1 THEN <<Equals(C_Product, matched_products[1])>>
    ELSE <<<<"(">>
           \o Join([i \in 1..Len(matched_products) |-> Equals(C_Product, matched_products[i])], <<" ","O","R"," ">>)
           \o <<")">>>>

\* `for value in enum: if value.lower() in query_lower: ...; break`
FirstEnumCondition(query_lower, col, enum) ==
    LET hits == SelectSeq(enum, LAMBDA value : Contains(query_lower, Lower(value))) IN
    IF hits = <<>> THEN <<>> ELSE <<Equals(col, hits[1])>>

\* the track1/track2 patterns checked after the TrackInfo enum
TrackPatternCondition(query_lower) ==
    IF Contains(query_lower, <<"t","r","a","c","k"," ","1">>) \/ Contains(query_lower, <<"t","r","a","c","k","1">>)
    THEN <<Equals(C_TrackInfo, E_Track1)>>
    ELSE IF Contains(query_lower, <<"t","r","a","c","k"," ","2">>) \/ Contains(query_lower, <<"t","r","a","c","k","2">>)
    THEN <<Equals(C_TrackInfo, E_Track2)>>
    ELSE <<>>

ProviderWords ==
    <<<<"c","o","m","p","u","t","e">>, <<"s","t","o","r","a","g","e">>, <<"n","e","t","w","o","r","k">>, <<"w","e","b">>, <<"s","q","l">>, <<"k","e","y","v","a","u","l","t">>, <<"r","e","s","o","u","r","c","e","s">>,
      <<"c","o","n","t","a","i","n","e","r">>, <<"d","o","c","u","m","e","n","t","d","b">>, <<"a","u","t","h","o","r","i","z","a","t","i","o","n">>>>

\* the loop over provider_patterns: the first pattern with a match decides
ProviderCondition(query_lower) ==
    LET dotted == FirstPhraseWord(query_lower, <<"m","i","c","r","o","s","o","f","t",".">>, FALSE)
        spaced == FirstPhraseWord(query_lower, <<"m","i","c","r","o","s","o","f","t">>, TRUE)
        word == FirstOfWords(query_lower, ProviderWords)
    IN  IF dotted # <<>> THEN <<Like(C_Provider, <<"M","i","c","r","o","s","o","f","t",".">> \o Capitalize(dotted))>>
        ELSE IF spaced # <<>> THEN <<Like(C_Provider, <<"M","i","c","r","o","s","o","f","t",".">> \o Capitalize(spaced))>>
        ELSE IF word # <<>> THEN <<Like(C_Provider, word)>>
        ELSE <<>>

ResourceKeyword(keyword, name) == [keyword |-> keyword, name |-> name]

\* resource_keywords in their order, each with the resource name its
\* branch renders
resource_keywords == <<
    ResourceKeyword(<<"v","i","r","t","u","a","l","m","a","c","h","i","n","e","s">>, <<"v","i","r","t","u","a","l","m","a","c","h","i","n","e","s">>),
    ResourceKeyword(<<"v","m">>, <<"v","i","r","t","u","a","l","M","a","c","h","i","n","e","s">>),
    ResourceKeyword(<<"v","i","r","t","u","a","l"," ","m","a","c","h","i","n","e","s">>, <<"v","i","r","t","u","a","l","M","a","c","h","i","n","e","s">>),
    ResourceKeyword(<<"s","t","o","r","a","g","e","a","c","c","o","u","n","t","s">>, <<"s","t","o","r","a","g","e","a","c","c","o","u","n","t","s">>),
    ResourceKeyword(<<"s","t","o","r","a","g","e"," ","a","c","c","o","u","n","t","s">>, <<"s","t","o","r","a","g","e","A","c","c","o","u","n","t","s">>),
    ResourceKeyword(<<"s","t","o","r","a","g","e">>, <<"s","t","o","r","a","g","e","A","c","c","o","u","n","t","s">>),
    ResourceKeyword(<<"v","i","r","t","u","a","l","n","e","t","w","o","r","k","s">>, <<"v","i","r","t","u","a","l","n","e","t","w","o","r","k","s">>),
    ResourceKeyword(<<"v","n","e","t">>, <<"v","i","r","t","u","a","l","N","e","t","w","o","r","k","s">>),
    ResourceKeyword(<<"v","i","r","t","u","a","l"," ","n","e","t","w","o","r","k","s">>, <<"v","i","r","t","u","a","l","N","e","t","w","o","r","k","s">>),
    ResourceKeyword(<<"n","e","t","w","o","r","k">>, <<"v","i","r","t","u","a","l","N","e","t","w","o","r","k","s">>),
    ResourceKeyword(<<"w","e","b","a","p","p","s">>, <<"w","e","b","a","p","p","s">>),
    ResourceKeyword(<<"w","e","b"," ","a","p","p","s">>, <<"w","e","b","A","p","p","s">>),
    ResourceKeyword(<<"w","e","b","a","p","p">>, <<"w","e","b","A","p","p","s">>),
    ResourceKeyword(<<"s","q","l","s","e","r","v","e","r","s">>, <<"s","q","l","s","e","r","v","e","r","s">>),
    ResourceKeyword(<<"s","q","l"," ","s","e","r","v","e","r","s">>, <<"s","q","l","S","e","r","v","e","r","s">>),
    ResourceKeyword(<<"s","q","l">>, <<"s","q","l","S","e","r","v","e","r","s">>),
    ResourceKeyword(<<"k","e","y","v","a","u","l","t","s">>, <<"k","e","y","v","a","u","l","t","s">>),
    ResourceKeyword(<<"k","e","y"," ","v","a","u","l","t","s">>, <<"k","e","y","V","a","u","l","t","s">>),
    ResourceKeyword(<<"k","e","y","v","a","u","l","t">>, <<"k","e","y","V","a","u","l","t","s">>),
    ResourceKeyword(<<"r","e","s","o","u","r","c","e","g","r","o","u","p","s">>, <<"r","e","s","o","u","r","c","e","g","r","o","u","p","s">>),
    ResourceKeyword(<<"r","e","s","o","u","r","c","e"," ","g","r","o","u","p","s">>, <<"r","e","s","o","u","r","c","e","G","r","o","u","p","s">>),
    ResourceKeyword(<<"k","u","b","e","r","n","e","t","e","s","c","l","u","s","t","e","r","s">>, <<"k","u","b","e","r","n","e","t","e","s","c","l","u","s","t","e","r","s">>),
    ResourceKeyword(<<"k","u","b","e","r","n","e","t","e","s">>, <<"k","u","b","e","r","n","e","t","e","s","C","l","u","s","t","e","r","s">>),
    ResourceKeyword(<<"a","k","s">>, <<"k","u","b","e","r","n","e","t","e","s","C","l","u","s","t","e","r","s">>),
    ResourceKeyword(<<"c","o","s","m","o","s","d","b","a","c","c","o","u","n","t","s">>, <<"c","o","s","m","o","s","d","b","a","c","c","o","u","n","t","s">>),
    ResourceKeyword(<<"c","o","s","m","o","s">>, <<"c","o","s","m","o","s","D","b","A","c","c","o","u","n","t","s">>),
    ResourceKeyword(<<"c","o","s","m","o","s","d","b">>, <<"c","o","s","m","o","s","D","b","A","c","c","o","u","n","t","s">>),
    ResourceKeyword(<<"r","o","l","e","a","s","s","i","g","n","m","e","n","t","s">>, <<"r","o","l","e","a","s","s","i","g","n","m","e","n","t","s">>),
    ResourceKeyword(<<"r","o","l","e"," ","a","s","s","i","g","n","m","e","n","t","s">>, <<"r","o","l","e","A","s","s","i","g","n","m","e","n","t","s">>) >>

\* the loop over resource_keywords: the first keyword of the list found
ResourceCondition(query_lower) ==
    LET hits == SelectSeq(resource_keywords, LAMBDA k : Contains(query_lower, k.keyword)) IN
    IF hits = <<>> THEN <<>> ELSE <<Like(C_Resource, hits[1].name)>>

count_columns == <<C_RequestCount, C_SubscriptionCount, C_RequestCounts, C_CCIDCount>>

Comparison(phrases, operator) == [phrases |-> phrases, operator |-> operator]

\* the comparison patterns of build_where_clause, in their order
comparison_patterns == <<
    Comparison(<<<<"m","o","r","e"," ","t","h","a","n">>, <<"g","r","e","a","t","e","r"," ","t","h","a","n">>, <<"a","b","o","v","e">>>>, <<" ",">"," ">>),
    Comparison(<<<<"l","e","s","s"," ","t","h","a","n">>, <<"b","e","l","o","w">>, <<"u","n","d","e","r">>>>, <<" ","<"," ">>),
    Comparison(<<<<"a","t"," ","l","e","a","s","t">>, <<"m","i","n","i","m","u","m"," ","o","f">>>>, <<" ",">","="," ">>),
    Comparison(<<<<"a","t"," ","m","o","s","t">>, <<"m","a","x","i","m","u","m"," ","o","f">>>>, <<" ","<","="," ">>),
    Comparison(<<<<"e","x","a","c","t","l","y">>, <<"e","q","u","a","l"," ","t","o">>>>, <<" ","="," ">>) >>

\* the last matching pattern is applied
CountCondition_last(query_lower, count_col) ==
    LET hits == SelectSeq(comparison_patterns,
                          LAMBDA p : SearchPhraseNumber(query_lower, p.phrases) # <<>>)
    IN  IF hits = <<>>
        THEN <<>>
        ELSE <<count_col \o hits[Len(hits)].operator
                 \o SearchPhraseNumber(query_lower, hits[Len(hits)].phrases)>>

\* `for pattern, formatter in patterns: ...; break` for one count column
CountCondition(query_lower, count_col) ==
    LET hits == SelectSeq(comparison_patterns,
                          LAMBDA p : SearchPhraseNumber(query_lower, p.phrases) # <<>>)
    IN  IF hits = <<>>
        THEN <<>>
        ELSE <<count_col \o hits[1].operator \o SearchPhraseNumber(query_lower, hits[1].phrases)>>

RECURSIVE CountConditions(_, _, _)

\* the loop over count_columns, from column i on
CountConditions(query_lower, available_columns, i) ==
    IF i > Len(count_columns)
    THEN <<>>
    ELSE (IF InList(count_columns[i], available_columns)
          THEN CountCondition(query_lower, count_columns[i])
          ELSE <<>>)
         \o CountConditions(query_lower, available_columns, i + 1)

\* the products build_where_clause matches for a table
MatchedProducts(query_text, table_name, schema) ==
    IF InList(C_Product, get_table_info(schema, table_name).columns)
    THEN find_products_by_query(Lower(query_text), QueryParser_get_enum_values(schema, C_Product))
    ELSE {}

\* the list `conditions` of build_where_clause for a known table;
\* matched_products is list(matched_products) in the order it came out
Conditions(query_text, table_name, schema, matched_products) ==
    LET available_columns == get_table_info(schema, table_name).columns
        query_lower == Lower(query_text)
        Has(col) == InList(col, available_columns)
        month_patterns == FindAllDates(query_lower, 1)
    IN  (IF month_patterns # <<>> /\ Has(C_Month)
         THEN [i \in 1..Len(month_patterns) |-> MonthCondition(month_patterns[i])]
         ELSE <<>>)
        \o (IF Contains(query_lower, <<"t","h","i","s"," ","m","o","n","t","h">>) /\ Has(C_Month)
            THEN <<<<"M","o","n","t","h"," ","L","I","K","E"," ","'","2","0","2","5","-","0","8","%","'">>>>
            ELSE <<>>)
        \o (IF Has(C_Product) THEN ProductConditions(matched_products) ELSE <<>>)
        \o (IF Has(C_TrackInfo)
            THEN FirstEnumCondition(query_lower, C_TrackInfo, QueryParser_get_enum_values(schema, C_TrackInfo))
                 \o TrackPatternCondition(query_lower)
            ELSE <<>>)
        \o (IF Has(C_Provider) THEN ProviderCondition(query_lower) ELSE <<>>)
        \o (IF Has(C_Resource) THEN ResourceCondition(query_lower) ELSE <<>>)
        \o (IF Has(C_HttpMethod)
            THEN FirstEnumCondition(query_lower, C_HttpMethod, QueryParser_get_enum_values(schema, C_HttpMethod))
            ELSE <<>>)
        \o (IF Has(C_OS)
            THEN FirstEnumCondition(query_lower, C_OS, QueryParser_get_enum_values(schema, C_OS))
            ELSE <<>>)
        \o CountConditions(query_lower, available_columns, 1)

Tautology == <<"1","=","1">>

\* QueryParser.build_where_clause
build_where_clause(query_text, table_name, schema, matched_products) ==
    IF get_table_info(schema, table_name) = NoTableInfo
    THEN Tautology
    ELSE LET conditions == Conditions(query_text, table_name, schema, matched_products) IN
         IF conditions = <<>> THEN Tautology ELSE Join(conditions, <<" ","A","N","D"," ">>)

\* the TOP N part of parse_user_query
LimitClause(user_question) ==
    LET top_match == SearchPhraseNumber(Lower(user_question), <<<<"t","o","p">>>>) IN
    IF top_match = <<>> THEN <<>> ELSE <<"T","O","P"," ">> \o top_match

\* the sort column parse_user_query picks, empty for None
OrderColumn(user_question, table_info) ==
    LET q == Lower(user_question) IN
    IF table_info = NoTableInfo THEN <<>>
    ELSE IF ContainsAny(q, <<<<"c","o","u","n","t">>, <<"r","e","q","u","e","s","t">>, <<"u","s","a","g","e">>>>)
    THEN IF InList(C_RequestCount, table_info.columns) THEN C_RequestCount
         ELSE IF InList(C_SubscriptionCount, table_info.columns) THEN C_SubscriptionCount
         ELSE <<>>
    ELSE IF Contains(q, <<"d","a","t","e">>) \/ Contains(q, <<"t","i","m","e">>)
    THEN IF InList(C_Month, table_info.columns) THEN C_Month
         ELSE IF InList(C_RequestsDate, table_info.columns) THEN C_RequestsDate
         ELSE <<>>
    ELSE <<>>

\* the cue words of the two direction tests, in the order of the source
ascending_words == <<<<"l","o","w","e","s","t">>, <<"l","e","a","s","t">>, <<"m","i","n","i","m","u","m">>, <<"a","s","c">>, <<"a","s","c","e","n","d","i","n","g">>, <<"o","l","d","e","s","t">>>>
descending_words == <<<<"h","i","g","h","e","s","t">>, <<"m","o","s","t">>, <<"m","a","x","i","m","u","m">>, <<"d","e","s","c">>, <<"d","e","s","c","e","n","d","i","n","g">>, <<"l","a","t","e","s","t">>, <<"n","e","w","e","s","t">>>>

\* two tests in sequence, the second overwriting what the first has set
OrderDirection_last(user_question) ==
    LET q == Lower(user_question) IN
    IF ContainsAny(q, descending_words) THEN <<"D","E","S","C">>
    ELSE IF ContainsAny(q, ascending_words) THEN <<"A","S","C">>
    ELSE <<"D","E","S","C">>

\* the sort direction parse_user_query picks: "DESC", then
\* `if any(ascending word) ... elif any(descending word) ...`
OrderDirection(user_question) ==
    LET q == Lower(user_question) IN
    IF ContainsAny(q, ascending_words) THEN <<"A","S","C">>
    ELSE IF ContainsAny(q, descending_words) THEN <<"D","E","S","C">>
    ELSE <<"D","E","S","C">>

\* the clause is built with the initial direction, whatever the cue tests set
OrderClause_always_desc(user_question, table_info) ==
    LET order_column == OrderColumn(user_question, table_info) IN
    IF order_column = <<>>
    THEN <<>>
    ELSE <<"O","R","D","E","R"," ","B","Y"," ">> \o order_column \o <<" ","D","E","S","C">>

\* the ORDER BY part of parse_user_query
OrderClause(user_question, table_info) ==
    LET order_column == OrderColumn(user_question, table_info) IN
    IF order_column = <<>>
    THEN <<>>
    ELSE <<"O","R","D","E","R"," ","B","Y"," ">> \o order_column \o <<" ">> \o OrderDirection(user_question)

----
(* parse_user_query as MCPTools runs it, one step per QueryParser call *)

\* the schema a SchemaLoader over manifest m hands to the parser
SchemaOf(m) == load_table_schema(NoCache, m).value

\* the manifests explored with the parser: definitions is a map in each
ParserManifests ==
    {Doc_Product, Doc_Family, Doc_Provider, Doc_Customer, Doc_Offline, Failure_Manifest("missing")}

\* the question as the text the parser receives
QuestionText(words) == Join(words, <<" ">>)

Numerals == {<<"5">>, <<"1","0","0","0">>}
HeadFillers == {<<<<"p","r","o","d","u","c","t","s">>, <<"w","i","t","h">>>>, <<<<"a","t">>, <<"l","e","a","s","t">>, <<"3">>, <<"a","n","d">>>>, <<>>}
TailFillers == {<<<<"r","e","q","u","e","s","t","s">>>>, <<<<"e","x","a","c","t","l","y">>, <<"7">>>>}

\* "Top N ... more than M ..."
TopQuestions ==
    {<<<<"T","o","p">>, n>> \o f \o <<<<"m","o","r","e">>, <<"t","h","a","n">>, m>> \o g :
        n \in Numerals, m \in Numerals, f \in HeadFillers, g \in TailFillers}

\* questions that name a table
NamedQuestions ==
    {<<<<"s","h","o","w">>, name, <<"r","o","w","s">>>> :
        name \in {N_MonthProduct, N_MonthProductOS, Lower(N_MonthProductOS), N_Customer}}

OtherQuestions == {
    <<<<"S","h","o","w">>, <<"m","e">>, <<"G","o","-","S","D","K">>, <<"r","e","q","u","e","s","t">>, <<"c","o","u","n","t","s">>, <<"t","h","i","s">>, <<"m","o","n","t","h">>>>,
    <<<<"W","h","a","t">>, <<"a","r","e">>, <<"t","h","e">>, <<"t","o","p">>, <<"1","0">>, <<"p","r","o","d","u","c","t","s">>, <<"b","y">>, <<"r","e","q","u","e","s","t">>, <<"c","o","u","n","t","?">>>>,
    <<<<"H","o","w">>, <<"m","a","n","y">>, <<"r","e","q","u","e","s","t","s">>, <<"f","o","r">>, <<"P","y","t","h","o","n","-","S","D","K">>, <<"i","n">>, <<"2","0","2","4","-","0","1","?">>>>,
    <<<<"h","e","l","l","o">>, <<"w","o","r","l","d">>>>,
    <<<<"s","h","o","w">>, <<"e","v","e","r","y","t","h","i","n","g">>>>,
    <<<<"w","h","i","c","h">>, <<"o","s">>, <<"h","a","s">>, <<"t","h","e">>, <<"l","o","w","e","s","t">>, <<"u","s","a","g","e">>>>,
    <<<<"s","t","o","r","a","g","e">>, <<"u","s","a","g","e">>>>,
    <<<<"u","s","a","g","e">>, <<"m","o","r","e">>, <<"t","h","a","n">>, <<"5">>>>,
    <<<<"t","r","a","c","k","1">>, <<"r","e","q","u","e","s","t","s">>, <<"o","n">>, <<"2","0","2","4","-","0","1","-","1","5">>, <<"f","o","r">>, <<"m","i","c","r","o","s","o","f","t",".","c","o","m","p","u","t","e">>>>,
    <<<<"j","s">>, <<"a","n","d">>, <<"p","y","t","h","o","n">>, <<"u","s","a","g","e">>, <<"o","v","e","r">>, <<"t","i","m","e">>>>,
    <<<<"s","u","b","s","c","r","i","p","t","i","o","n">>, <<"t","o","t","a","l","s">>, <<"f","o","r">>, <<"m","i","c","r","o","s","o","f","t">>, <<"s","t","o","r","a","g","e">>>> }

\* questions with and without cue words for the sort direction
DirectionQuestions == {
    <<<<"h","i","g","h","e","s","t">>, <<"r","e","q","u","e","s","t">>, <<"c","o","u","n","t","s">>>>,
    <<<<"r","e","q","u","e","s","t">>, <<"c","o","u","n","t","s">>, <<"d","e","s","c">>>>,
    <<<<"n","e","w","e","s","t">>, <<"r","e","q","u","e","s","t","s">>, <<"b","y">>, <<"d","a","t","e">>>>,
    <<<<"l","e","a","s","t">>, <<"u","s","e","d">>, <<"p","r","o","d","u","c","t","s">>, <<"b","y">>, <<"u","s","a","g","e">>>>,
    <<<<"o","l","d","e","s","t">>, <<"r","e","q","u","e","s","t","s">>, <<"b","y">>, <<"d","a","t","e">>, <<"a","s","c">>>>,
    <<<<"l","o","w","e","s","t">>, <<"a","n","d">>, <<"h","i","g","h","e","s","t">>, <<"u","s","a","g","e">>>>,
    <<<<"h","i","g","h","e","s","t">>, <<"a","n","d">>, <<"l","o","w","e","s","t">>, <<"u","s","a","g","e">>>>,
    <<<<"m","o","s","t">>, <<"u","s","a","g","e">>, <<"s","i","n","c","e">>, <<"t","h","e">>, <<"o","l","d","e","s","t">>, <<"d","a","t","e">>>> }

Questions == TopQuestions \cup NamedQuestions \cup OtherQuestions \cup DirectionQuestions

ParseRecord(stage) ==
    [stage |-> stage, error |-> FALSE, table_name |-> <<>>, columns |-> <<>>, conditions |-> <<>>,
     where_clause |-> <<>>, limit_clause |-> <<>>, order_clause |-> <<>>, assembled |-> {}]

\* main(): a SchemaLoader over the manifest in place, and the QueryParser on it
NewQueryParser ==
    /\ manifest = NoManifest
    /\ manifest' \in ParserManifests
    /\ UNCHANGED <<schema_cache, opens, sop, sresult, parseVars, callVars, lifeVars, restVars, poolVars>>

\* parse_user_query up to `if not table_name`
FindTableByName ==
    /\ ppc = "idle"
    /\ manifest # NoManifest
    /\ \E q \in Questions :
          LET table_name == find_table_by_name(QuestionText(q), SchemaOf(manifest)) IN
          /\ question' = q
          /\ IF table_name = NotFound
             THEN /\ parsed' = [ParseRecord("error") EXCEPT !.error = TRUE]
                  /\ ppc' = "done"
             ELSE /\ parsed' = [ParseRecord("table") EXCEPT !.table_name = table_name]
                  /\ ppc' = "columns"
    /\ UNCHANGED <<schemaVars, callVars, lifeVars, restVars, poolVars>>

\* `columns = self.extract_columns_from_query(user_question, table_name)`
ExtractColumns ==
    /\ ppc = "columns"
    /\ parsed' = [parsed EXCEPT
                    !.stage = "columns",
                    !.columns = extract_columns_from_query(QuestionText(question), parsed.table_name,
                                                           SchemaOf(manifest))]
    /\ ppc' = "where"
    /\ UNCHANGED <<question, schemaVars, callVars, lifeVars, restVars, poolVars>>

\* `where_clause = self.build_where_clause(user_question, table_name)`
BuildWhereClause ==
    /\ ppc = "where"
    /\ \E matched_products \in
            Listings(MatchedProducts(QuestionText(question), parsed.table_name, SchemaOf(manifest))) :
          parsed' = [parsed EXCEPT
                       !.stage = "where",
                       !.conditions = Conditions(QuestionText(question), parsed.table_name,
                                                 SchemaOf(manifest), matched_products),
                       !.where_clause = build_where_clause(QuestionText(question), parsed.table_name,
                                                           SchemaOf(manifest), matched_products)]
    /\ ppc' = "order"
    /\ UNCHANGED <<question, schemaVars, callVars, lifeVars, restVars, poolVars>>

\* the TOP N and ORDER BY parts of parse_user_query, and its return
LimitAndOrder ==
    /\ ppc = "order"
    /\ parsed' = [parsed EXCEPT
                    !.stage = "parsed",
                    !.limit_clause = LimitClause(QuestionText(question)),
                    !.order_clause = OrderClause(QuestionText(question),
                                                 get_table_info(SchemaOf(manifest), parsed.table_name))]
    /\ ppc' = "done"
    /\ UNCHANGED <<question, schemaVars, callVars, lifeVars, restVars, poolVars>>

\* extract_columns_from_query called with a table name of the caller's choice
CallExtractColumns ==
    /\ ppc = "idle"
    /\ manifest # NoManifest
    /\ \E q \in OtherQuestions, table_name \in {N_MonthProduct, N_Customer, N_Unknown} :
          /\ question' = q
          /\ parsed' = [ParseRecord("extract_columns") EXCEPT
                          !.table_name = table_name,
                          !.columns = extract_columns_from_query(QuestionText(q), table_name,
                                                                 SchemaOf(manifest))]
    /\ ppc' = "done"
    /\ UNCHANGED <<schemaVars, callVars, lifeVars, restVars, poolVars>>

\* MCPTools.parse_user_query: the components it returns for the
\* QueryParser's result; the tautology is handed back as the empty text
ParsedComponents(query_info) ==
    [table_name |-> query_info.table_name,
     columns |-> query_info.columns,
     where_clause |-> IF query_info.where_clause # Tautology THEN query_info.where_clause ELSE <<>>,
     order_clause |-> query_info.order_clause,
     limit_clause |-> query_info.limit_clause]

\* the WHERE part is rendered for every predicate, the tautology included
GeneratedSql_always_where(query_info) ==
    LET columns_str == Join(query_info.columns, T_CommaSp)
        head == IF query_info.limit_clause # <<>>
                THEN T_SelectSp \o query_info.limit_clause \o T_Sp \o columns_str
                ELSE T_SelectSp \o columns_str
        from == T_FromSp \o query_info.table_name
        where == << T_WhereSp \o query_info.where_clause >>
        order == IF query_info.order_clause # <<>> THEN << query_info.order_clause >> ELSE <<>>
    IN  Join(<<head, from>> \o where \o order, T_Sp)

\* validate_query: the statement built from the QueryParser's result
GeneratedSql(query_info) ==
    LET columns_str == Join(query_info.columns, T_CommaSp)
        head == IF query_info.limit_clause # <<>>
                THEN T_SelectSp \o query_info.limit_clause \o T_Sp \o columns_str
                ELSE T_SelectSp \o columns_str
        from == T_FromSp \o query_info.table_name
        where == IF query_info.where_clause # Tautology
                 THEN << T_WhereSp \o query_info.where_clause >> ELSE <<>>
        order == IF query_info.order_clause # <<>> THEN << query_info.order_clause >> ELSE <<>>
    IN  Join(<<head, from>> \o where \o order, T_Sp)

\* what an operation of MCPTools made of the parsed question
Assembled(by, built, sql) == [by |-> by, built |-> built, sql |-> sql]

\* execute_sql_with_auth, step 1, on the components of parse_user_query:
\* the statement it hands to execute_query, or the return for missing parameters
ExecutedSql(c) ==
    IF c.table_name = <<>> \/ c.columns = <<>>
    THEN Assembled("execute_sql_with_auth", FALSE, <<>>)
    ELSE Assembled("execute_sql_with_auth", TRUE,
                   BuildSql(c.table_name, [kind |-> "list", items |-> c.columns],
                            c.where_clause, c.order_clause, c.limit_clause))

AssembledBy(by) == {a \in parsed.assembled : a.by = by}

\* validate_query after its call of QueryParser.parse_user_query
ValidateQueryBuild ==
    /\ ppc = "done"
    /\ parsed.stage = "parsed"
    /\ AssembledBy("validate_query") = {}
    /\ parsed' = [parsed EXCEPT !.assembled =
                     @ \cup {Assembled("validate_query", TRUE, GeneratedSql(parsed))}]
    /\ UNCHANGED <<question, ppc, schemaVars, callVars, lifeVars, restVars, poolVars>>

\* the caller hands the components MCPTools.parse_user_query returned for
\* the question to execute_sql_with_auth
ExecuteParsed ==
    /\ ppc = "done"
    /\ parsed.stage = "parsed"
    /\ AssembledBy("execute_sql_with_auth") = {}
    /\ parsed' = [parsed EXCEPT !.assembled = @ \cup {ExecutedSql(ParsedComponents(parsed))}]
    /\ UNCHANGED <<question, ppc, schemaVars, callVars, lifeVars, restVars, poolVars>>

\* the result is handed to the caller
ParseDeliver ==
    /\ ppc = "done"
    /\ ppc' = "idle"
    /\ question' = <<>>
    /\ parsed' = NoParse
    /\ UNCHANGED <<schemaVars, callVars, lifeVars, restVars, poolVars>>

ParseNext ==
    \/ NewQueryParser
    \/ FindTableByName
    \/ ExtractColumns
    \/ BuildWhereClause
    \/ LimitAndOrder
    \/ CallExtractColumns
    \/ ValidateQueryBuild
    \/ ExecuteParsed
    \/ ParseDeliver

SpecParse == Init /\ [][ParseNext]_vars

----
(* Properties *)

ExecAuth == op = "execute_sql_with_auth"

\* Outcomes of execute_query that the design calls retryable
RetryableFailure(c) == c.kind \in {"connect_timeout", "raise_retryable"}

\* The statement-safety check as the interface section words it
DenyList == {S_drop, S_delete, S_insert, S_update, S_create, S_alter, S_truncate, S_exec, S_execute}
PassesSafetyCheck(sql) ==
    LET t == Strip(Lower(sql)) IN
    /\ StartsWith(t, S_select)
    /\ \A k \in DenyList : ~Contains(t, k)

\* C1: one call of execute_sql_with_auth invokes sql_client.execute_query at
\* most 3 times, whatever each invocation returns or raises, and once the
\* third invocation has completed the call has returned a result.
C1_AtMostThreeAttempts ==
    ExecAuth =>
        /\ Len(calls) <= 3
        /\ Len(calls) = 3 => (pc = "returned" /\ result.kind = "returned")
        /\ pc = "returned" => result.kind = "returned"

C1_Witness ==
    ExecAuth /\ pc = "returned" /\ Len(calls) = 3 /\ calls[3].status = "raised"

\* C2: when the first and the second invocation fail with a retryable error
\* and the third succeeds, execute_sql_with_auth returns success after exactly
\* 3 invocations, with the rows of the third.
C2_SucceedsOnThirdAttempt ==
    (ExecAuth /\ pc = "returned" /\ Len(calls) >= 2
        /\ RetryableFailure(calls[1]) /\ RetryableFailure(calls[2]))
    => /\ Len(calls) = 3
       /\ calls[3].status = "success" =>
              (result.success /\ result.data = calls[3].rows /\ ~result.troubleshooting)

C2_Witness ==
    /\ ExecAuth /\ pc = "returned" /\ Len(calls) = 3
    /\ RetryableFailure(calls[1]) /\ RetryableFailure(calls[2])
    /\ calls[3].status = "success" /\ result.success /\ result.data = 2

DirectAnswered(codes) ==
    /\ Len(rsteps) >= 1
    /\ rsteps[1].strategy = "direct"
    /\ rsteps[1].resp.kind = "http"
    /\ rsteps[1].resp.code \in codes

ManagementInvoked == \E i \in 1..Len(rsteps) : rsteps[i].strategy = "management"

\* C3: when the direct endpoint answers HTTP 401 or 403, the management
\* strategy is not invoked in that call and the call ends as an
\* authentication failure.
C3_AuthFailureAborts ==
    DirectAnswered({401, 403}) =>
        /\ ~ManagementInvoked
        /\ rpc = "done"
        /\ rresult.call = "auth_failed"

\* A failure of the direct strategy after which falling back is in order:
\* anything but an authentication failure.
RecoverableFailure(resp) ==
    /\ ~(resp.kind = "http" /\ resp.code \in {401, 403})
    /\ ~(resp.kind = "http" /\ resp.code = 200 /\ resp.body = "rows")

\* C4: the management strategy is invoked only as the second strategy of a
\* call, after the direct strategy has failed recoverably, and never after
\* the direct strategy returned a result.
C4_StrictOrder ==
    \A i \in 1..Len(rsteps) :
        rsteps[i].strategy = "management" =>
            /\ i = 2
            /\ rsteps[1].strategy = "direct"
            /\ RecoverableFailure(rsteps[1].resp)

AuthOrMalformed == {"token_fail", "login_fail", "denied", "syntax_error"}

\* C5: an authentication/authorization failure (also one raised while
\* connecting or acquiring the token) or a malformed statement ends
\* execute_sql_with_auth after exactly one attempt, without a backoff wait.
C5_NonRetryableEndsAtOnce ==
    (ExecAuth /\ Len(calls) >= 1 /\ calls[1].kind \in AuthOrMalformed)
    => (Len(calls) = 1 /\ sleeps = <<>> /\ pc = "returned")

Timeouts == {"connect_timeout", "exec_timeout"}

\* C6: a timed-out connection attempt or execution is retryable: after it,
\* execute_sql_with_auth makes another attempt whenever fewer than 3 attempts
\* have been made.
C6_TimeoutIsRetried ==
    ExecAuth =>
        \A i \in 1..Len(calls) :
            (calls[i].kind \in Timeouts /\ i < 3) => (i < Len(calls) \/ pc = "backoff")

\* C7: every SQL text handed to sql_client.execute_query has passed the
\* statement-safety check, also the text execute_sql_with_auth assembles
\* from its arguments.
C7_OnlyCheckedSqlExecutes ==
    Len(calls) >= 1 => PassesSafetyCheck(sql_query)

\* C8: when the caller's statement fails the safety check, execute_custom_sql
\* returns an error without requesting a token, opening a connection or
\* invoking sql_client.execute_query.
C8_RejectedBeforeNetwork ==
    (op = "execute_custom_sql" /\ ~PassesSafetyCheck(sql_query))
    => /\ pc = "returned"
       /\ net = 0
       /\ calls = <<>>
       /\ result.kind = "returned" /\ ~result.success
       /\ result.error \in {"not_select", "prohibited"}

C8_Witness ==
    op = "execute_custom_sql" /\ pc = "returned" /\ result.error = "prohibited" /\ net = 0

RealEventKinds == {"ok", "token_fail", "login_fail", "connect_timeout", "exec_timeout", "syntax_error", "denied"}

\* C9: no exception leaves an operation: execute_query of the client returns
\* a result for every failure of the connection or the query, and every
\* MCPTools operation that has ended has returned a structured result.
C9_NoExceptionCrossesBoundary ==
    /\ result.kind # "raised"
    /\ pc = "returned" => result.kind = "returned"
    /\ \A i \in 1..Len(calls) : calls[i].kind \in RealEventKinds => calls[i].status \in {"success", "error"}

C9_Witness ==
    /\ pc = "returned"
    /\ \/ op = "parse_user_query" /\ result.error = "parse_exception"
       \/ op = "execute_sql_with_auth" /\ result.error = "outer_exception"

\* C10: over a sequence of MCPTools constructions exactly one MSSQLMSIClient
\* is created, by the first construction, and every instance holds it.
C10_SingleClient ==
    cleanups = 0 =>
        /\ Len(clients) <= 1
        /\ tools # <<>> => Len(clients) = 1
        /\ \A i \in 1..Len(tools) : tools[i] = 1 /\ tools[i] = sql_client_instance

C10_Witness ==
    cleanups = 0 /\ Len(tools) = 3 /\ Len(clients) = 1

\* a step that is one call of MCPTools.cleanup_sql_client
CleanupStep == cleanups' = cleanups + 1

\* C11: every cleanup_sql_client call leaves no shared instance registered;
\* when an instance was registered the call shuts down the worker pool of
\* that client, and when none was registered it changes nothing.
C11_CleanupClosesOnce ==
    [][CleanupStep =>
          /\ sql_client_instance' = 0
          /\ IF sql_client_instance # 0
             THEN /\ clients[sql_client_instance] = "running"
                  /\ clients' = [clients EXCEPT ![sql_client_instance] = "shutdown"]
             ELSE clients' = clients]_vars

\* caller c has blocking work in the executor's queue that no worker runs
Waiting(c) == \E i \in 1..Len(pqueue) : pqueue[i].caller = c

\* a worker runs blocking work that caller c still awaits
InProgress(c) == \E w \in DOMAIN pworkers : pworkers[w].caller = c /\ ~pworkers[w].orphan

\* C12: two concurrent execute_query calls do not serialize: the blocking
\* work of one caller never waits in the queue, with every worker thread
\* taken, while a worker runs the blocking work of another caller.
C12_NoSerialization ==
    \A c1 \in Callers : \A c2 \in Callers \ {c1} :
        ~(Waiting(c1) /\ InProgress(c2) /\ BusyWorkers = DOMAIN pworkers)

\* C13: over any sequence of SchemaLoader calls on one loader the manifest
\* file is opened at most once, whatever the outcome of the first load.
C13_ManifestOpenedAtMostOnce == opens <= 1

\* a manifest that is missing, unreadable, or not of the documented form
Defective(m) ==
    \/ m.kind \in FailureKinds
    \/ m.kind = "document" /\ m.definitions_type # "dict"

\* C14: with a missing, unreadable or malformed manifest no SchemaLoader
\* call raises, load_table_schema returns the empty catalog, and
\* get_enabled_tables and get_enum_values return nothing.
C14_FailsSoftly ==
    (Defective(manifest) /\ sop # "none") =>
        /\ ~sresult.raised
        /\ sop = "load_table_schema" => sresult.value = EmptyCatalog
        /\ sop = "get_enabled_tables" => sresult.value = <<>>
        /\ sop = "get_enum_values" => sresult.value = <<>>

\* the table resolver has answered for the question in `question`
Resolved == parsed.stage \in {"error", "table", "columns", "where", "parsed"}

\* the tables of the catalog, enabled or not
CatalogTables == SchemaOf(manifest).tables

EnabledTables == SelectSeq(CatalogTables, LAMBDA e : e.value.enabled)

\* C15: when the question contains the exact name of a table T of the
\* catalog, find_table_by_name returns T.
C15_NamedTableIsReturned ==
    Resolved =>
        \A i \in 1..Len(CatalogTables) :
            Contains(QuestionText(question), CatalogTables[i].value.name)
                => parsed.table_name = CatalogTables[i].value.name

\* the question matches no table name
NoNameMatch ==
    \A i \in 1..Len(EnabledTables) :
        /\ ~Contains(Lower(QuestionText(question)), EnabledTables[i].key)
        /\ ~Contains(Lower(QuestionText(question)), Lower(EnabledTables[i].value.name))

\* the question scores zero on every enabled table
ZeroScores ==
    \A i \in 1..Len(EnabledTables) :
        TableScore(Lower(QuestionText(question)), EnabledTables[i].value, SchemaOf(manifest)) = 0

\* C16: a question that matches no table name and scores zero on every
\* enabled table resolves to the first enabled table in catalog order, and
\* the resolver answers not-found exactly when no table is enabled.
C16_FallbackIsFirstEnabled ==
    Resolved =>
        /\ parsed.error <=> EnabledTables = <<>>
        /\ (NoNameMatch /\ ZeroScores /\ EnabledTables # <<>>)
              => parsed.table_name = EnabledTables[1].value.name

\* the fallback picked the first of several enabled tables
C16_Witness ==
    /\ parsed.stage = "table"
    /\ NoNameMatch
    /\ ZeroScores
    /\ Len(EnabledTables) >= 2
    /\ parsed.table_name = EnabledTables[1].value.name

\* extract_columns_from_query has answered for parsed.table_name
ColumnsSelected == parsed.stage \in {"columns", "where", "parsed", "extract_columns"}

\* the table is present in the catalog
KnownTable(table_name) ==
    \E i \in 1..Len(CatalogTables) : CatalogTables[i].key = Lower(table_name)

\* C17: the column list is never empty for a table present in the catalog,
\* and it is ['*'] only when the table is unknown.
C17_ColumnsNeverEmpty ==
    ColumnsSelected =>
        /\ KnownTable(parsed.table_name) => parsed.columns # <<>>
        /\ parsed.columns = <<C_Star>> => ~KnownTable(parsed.table_name)

RemoveAt(words, i) == SubSeq(words, 1, i - 1) \o SubSeq(words, i + 1, Len(words))

\* the column a clause constrains: the identifier it starts with
ClauseColumn(clause) ==
    LET body == IF clause[1] = "(" THEN Tail(clause) ELSE clause IN
    SubSeq(body, 1, RunEnd(body, 1, IsWordChar))

\* the clauses of `before` missing from `after`
Lost(before, after) == {before[k] : k \in {j \in 1..Len(before) : ~InList(before[j], after)}}

\* C18: removing one token of the question removes at most one clause of
\* the predicate, adds none and leaves the others as they were; the
\* clauses one token gives rise to are never on two different columns.
C18_ClausesDoNotInteract ==
    parsed.stage = "where" =>
        \A i \in 1..Len(question) :
            LET reduced == QuestionText(RemoveAt(question, i)) IN
            \E listing \in Listings(MatchedProducts(reduced, parsed.table_name, SchemaOf(manifest))) :
                LET after == Conditions(reduced, parsed.table_name, SchemaOf(manifest), listing) IN
                /\ Lost(after, parsed.conditions) = {}
                /\ Cardinality(Lost(parsed.conditions, after)) <= 1
                /\ Cardinality({ClauseColumn(c) : c \in Lost(parsed.conditions, after)}) <= 1

\* a catalog of one table with the columns Month, Product, RequestCount
\* and SubscriptionCount, whose Product enum contains Go-SDK
UsageCatalog ==
    /\ Len(CatalogTables) = 1
    /\ {CatalogTables[1].value.columns[i] : i \in 1..Len(CatalogTables[1].value.columns)}
          = {C_Month, C_Product, C_RequestCount, C_SubscriptionCount}
    /\ InList(E_GoSDK, SchemaLoader_get_enum_values(SchemaOf(manifest), C_Product).value)

\* C19: "Show me Go-SDK request counts this month" on that catalog yields
\* its table, columns that include Product and RequestCount, a predicate
\* with Product = 'Go-SDK' and a Month prefix match, and no limit.
C19_GoSdkThisMonth ==
    (/\ parsed.stage = "parsed"
     /\ UsageCatalog
     /\ question = <<<<"S","h","o","w">>, <<"m","e">>, <<"G","o","-","S","D","K">>, <<"r","e","q","u","e","s","t">>, <<"c","o","u","n","t","s">>, <<"t","h","i","s">>, <<"m","o","n","t","h">>>>) =>
        /\ parsed.table_name = CatalogTables[1].value.name
        /\ InList(C_Product, parsed.columns)
        /\ InList(C_RequestCount, parsed.columns)
        /\ Contains(parsed.where_clause, <<"P","r","o","d","u","c","t"," ","="," ","'","G","o","-","S","D","K","'">>)
        /\ Contains(parsed.where_clause, <<"M","o","n","t","h"," ","L","I","K","E"," ","'">>)
        /\ parsed.limit_clause = <<>>

\* the question has the form "Top n ... more than m ..."
TopMoreThan(n, m) ==
    /\ Len(question) >= 5
    /\ question[1] = <<"T","o","p">>
    /\ question[2] = n
    /\ \E i \in 3..(Len(question) - 2) :
          question[i] = <<"m","o","r","e">> /\ question[i + 1] = <<"t","h","a","n">> /\ question[i + 2] = m

\* the clauses of the predicate on column col
ClausesOn(col) ==
    {parsed.conditions[k] : k \in {j \in 1..Len(parsed.conditions) :
                                     StartsWith(parsed.conditions[j], col \o <<" ">>)}}

Accepted == pc = "attempt" \/ Len(calls) >= 1

\* the operation ended at one of the two checks
Rejected == pc = "returned" /\ calls = <<>> /\ result.error \in {"not_select", "prohibited"}

\* C21: the statement-safety check accepts a statement exactly when its
\* trimmed, lower-cased text starts with 'select' and contains none of the
\* nine denied words as a substring; 'SELECT * FROM t' and a mixed-case
\* 'Select ...' pass, 'select * from t; DROP TABLE t' is rejected.
C21_SafetyCheckIsExact ==
    op = "execute_custom_sql" =>
        /\ Accepted <=> PassesSafetyCheck(sql_query)
        /\ Rejected <=> ~PassesSafetyCheck(sql_query)
        /\ sql_query \in {Sql_SelectStar, Sql_MixedCase} => Accepted
        /\ sql_query = Sql_Drop => Rejected

C21_Witness ==
    op = "execute_custom_sql" /\ sql_query = Sql_Padded /\ Len(calls) = 1 /\ calls[1].status = "success"

\* the first index at which p occurs in s, 0 when it does not occur
FindFirst(s, p) ==
    LET at == {i \in 1..(Len(s) - Len(p) + 1) : SubSeq(s, i, i + Len(p) - 1) = p}
    IN  IF at = {} THEN 0 ELSE CHOOSE i \in at : \A j \in at : i <= j

\* the pieces of s between occurrences of sep; none for the empty text
SplitOn(s, sep) ==
    LET at == {i \in 1..(Len(s) - Len(sep) + 1) : SubSeq(s, i, i + Len(sep) - 1) = sep}
        starts == {1} \cup {i + Len(sep) : i \in at}
        ends == {Len(s)} \cup {i - 1 : i \in at}
    IN  {SubSeq(s, a, b) : <<a, b>> \in
            {x \in starts \X ends : x[1] <= x[2] /\ ~Contains(SubSeq(s, x[1], x[2]), sep)}}

\* Reading a statement of the shape
\*   SELECT [TOP N] cols FROM table [WHERE predicate] [ORDER BY col dir]
\* back into its parts
Reparse(text) ==
    LET f == FindFirst(text, <<" ","F","R","O","M"," ">>)
        cols == SubSeq(text, Len(T_SelectSp) + 1, f - 1)
        cols_text == IF StartsWith(cols, <<"T","O","P"," ">>)
                     THEN SubSeq(cols, RunEnd(cols, 5, IsDigit) + 2, Len(cols))
                     ELSE cols
        rest == SubSeq(text, f + 6, Len(text))
        table_end == RunEnd(rest, 1, IsNotSpace)
        tail == SubSeq(rest, table_end + 1, Len(rest))
        has_where == StartsWith(tail, <<" ","W","H","E","R","E"," ">>)
        o == FindFirst(tail, <<" ","O","R","D","E","R"," ","B","Y"," ">>)
        predicate == IF has_where
                     THEN SubSeq(tail, 8, IF o = 0 THEN Len(tail) ELSE o - 1)
                     ELSE <<>>
    IN  [select |-> StartsWith(text, T_SelectSp) /\ f # 0,
         table |-> SubSeq(rest, 1, table_end),
         columns |-> SplitOn(cols_text, T_CommaSp),
         has_where |-> has_where,
         predicate |-> predicate,
         tautology |-> ~has_where \/ predicate = Tautology]

\* C22: for every parsed intent, reading the SELECT/FROM/WHERE/ORDER
\* structure of the assembled statement back gives the intent's table, its
\* column set and its tautology flag, and the WHERE part is present exactly
\* when the predicate is not the tautology 1=1.
C22_AssemblyRoundTrips ==
    \A a \in parsed.assembled :
        a.built =>
            LET r == Reparse(a.sql) IN
            /\ r.select
            /\ r.table = parsed.table_name
            /\ r.columns = {parsed.columns[i] : i \in DOMAIN parsed.columns}
            /\ r.tautology <=> parsed.where_clause = Tautology
            /\ r.has_where <=> parsed.where_clause # Tautology
            /\ r.has_where => r.predicate = parsed.where_clause

C22_Witness ==
    /\ Cardinality(parsed.assembled) = 2
    /\ \A a \in parsed.assembled : a.built
    /\ parsed.limit_clause # <<>>
    /\ parsed.where_clause # Tautology
    /\ parsed.order_clause # <<>>
    /\ Len(parsed.columns) >= 2

\* C30: translate-only and translate-and-execute agree: for every question
\* that resolves to a table, the text validate_query reports as
\* generated_sql is the text execute_sql_with_auth assembles and executes
\* from the components parse_user_query returns for the same question.
C30_TranslateAndExecuteAgree ==
    \A v \in AssembledBy("validate_query"), e \in AssembledBy("execute_sql_with_auth") :
        /\ e.built
        /\ e.sql = v.sql

\* the question that is being parsed, lower-cased
Asked == Lower(QuestionText(question))

HasCue(cues) == \E w \in cues : Contains(Asked, w)

\* the cue words as the design lists them
AscendingCues == {<<"l","o","w","e","s","t">>, <<"l","e","a","s","t">>, <<"m","i","n","i","m","u","m">>, <<"o","l","d","e","s","t">>, <<"a","s","c">>}
DescendingCues == {<<"h","i","g","h","e","s","t">>, <<"m","o","s","t">>, <<"m","a","x","i","m","u","m">>, <<"n","e","w","e","s","t">>, <<"d","e","s","c">>}

\* parse_user_query has returned an ORDER BY clause
Ordered == parsed.stage = "parsed" /\ parsed.order_clause # <<>>

\* the direction of the ORDER BY clause: its last word
DerivedDirection ==
    LET c == parsed.order_clause
        i == CHOOSE k \in 1..Len(c) : c[k] = " " /\ \A j \in (k + 1)..Len(c) : c[j] # " "
    IN  SubSeq(c, i + 1, Len(c))

\* C23: the derived direction is DESC when the question has no direction
\* cue, ASC when it contains one of lowest/least/minimum/oldest/asc, and a
\* question containing one of highest/most/maximum/newest/desc is forced
\* to DESC.
C23_DirectionFollowsCue ==
    Ordered =>
        /\ (~HasCue(AscendingCues) /\ ~HasCue(DescendingCues)) => DerivedDirection = <<"D","E","S","C">>
        /\ (HasCue(AscendingCues) /\ ~HasCue(DescendingCues)) => DerivedDirection = <<"A","S","C">>
        /\ HasCue(DescendingCues) => DerivedDirection = <<"D","E","S","C">>

\* C23, amended: the derived direction is ASC whenever the question
\* contains one of lowest/least/minimum/oldest/asc, also when it contains a
\* descending cue as well, and DESC otherwise, with or without a descending
\* cue.
C23_AscendingCueDecides ==
    Ordered =>
        /\ HasCue(AscendingCues) => DerivedDirection = <<"A","S","C">>
        /\ ~HasCue(AscendingCues) => DerivedDirection = <<"D","E","S","C">>

C23_Witness ==
    /\ Ordered
    /\ HasCue({<<"l","e","a","s","t">>}) /\ ~HasCue(DescendingCues)
    /\ DerivedDirection = <<"A","S","C">>

\* the question holds an ascending and a descending cue
BothCues == HasCue(AscendingCues) /\ HasCue(DescendingCues)

\* C26: when a question contains both an ascending and a descending cue,
\* the direction is decided last-match-wins: the test for the ascending
\* words comes first and the test for the descending words second, so the
\* direction of the second, DESC, is the one used.
C26_LastMatchWins ==
    (Ordered /\ BothCues) => DerivedDirection = <<"D","E","S","C">>

\* C26, amended: when a question contains both an ascending and a
\* descending cue, the first test that matches decides, and the test for the
\* descending words is not made: the direction is ASC, in whatever order the
\* two cues stand in the question.
C26_FirstMatchWins ==
    (Ordered /\ BothCues) => DerivedDirection = <<"A","S","C">>

C26_Witness ==
    /\ Ordered
    /\ question = <<<<"h","i","g","h","e","s","t">>, <<"a","n","d">>, <<"l","o","w","e","s","t">>, <<"u","s","a","g","e">>>>
    /\ DerivedDirection = <<"A","S","C">>

RECURSIVE Pow2(_)
Pow2(n) == IF n = 0 THEN 1 ELSE 2 * Pow2(n - 1)

\* C25: in execute_sql_with_auth the backoff wait before the k-th retry is
\* 2^(k-1) seconds (1 s, then 2 s); a wait occurs only between two
\* attempts, never after the last attempt or after a success; and the wait
\* is a cooperative sleep during which another request can run.
C25_BackoffDoublesBetweenAttempts ==
    ExecAuth =>
        /\ \A k \in 1..Len(sleeps) : sleeps[k] = Pow2(k - 1)
        /\ \A k \in 2..Len(sleeps) : sleeps[k] = 2 * sleeps[k - 1]
        /\ pc = "backoff" => (retry_delay = Pow2(Len(sleeps)) /\ Len(sleeps) = Len(calls) - 1)
        /\ pc = "attempt" => Len(sleeps) = Len(calls)
        /\ (pc = "returned" /\ calls # <<>>) => Len(sleeps) = Len(calls) - 1
        /\ (pc = "returned" /\ calls = <<>>) => sleeps = <<>>
        /\ Len(sleeps) <= 2
        /\ \A k \in 1..Len(calls) :
              calls[k].status = "success" => (k = Len(calls) /\ pc = "returned")
        /\ (pc = "backoff" /\ others < MaxOthers) => ENABLED ServeOther
        /\ others > 0 => Len(calls) >= 1

C25_Witness ==
    ExecAuth /\ pc = "returned" /\ sleeps = <<1, 2>> /\ Len(calls) = 3 /\ others = 1

\* execute_sql_with_auth has returned after invoking execute_query
Ended == ExecAuth /\ pc = "returned" /\ calls # <<>>

\* every invocation of the operation failed for a connection or transient reason
ExhaustedByTransientFailures ==
    /\ Len(calls) = 3
    /\ \A k \in 1..3 : calls[k].kind \in {"connect_timeout", "exec_timeout", "raise_retryable"}

\* C24: a result of execute_sql_with_auth carries troubleshooting hints only
\* when the retries were exhausted (3 attempts made), and a connection or
\* transient failure that exhausts its retries is surfaced with the hints.
C24_HintsOnlyAfterExhaustion ==
    Ended =>
        /\ result.troubleshooting => Len(calls) = 3
        /\ ExhaustedByTransientFailures => (~result.success /\ result.troubleshooting)

\* the connections the history can hold
ConnIds == 1..MaxCalls

IsOpen(i) == i <= Len(conns) /\ conns[i].state = "open"
IsClosed(i) == i <= Len(conns) /\ conns[i].state \in {"closed", "finalized"}

\* C27: every connection a pool worker opens on behalf of an execute_query
\* call is eventually closed: on success, on a query error, and when the
\* wait for the connection timed out before the worker returned it.
C27_ConnectionsEventuallyClosed ==
    \A i \in ConnIds : IsOpen(i) ~> IsClosed(i)

\* a worker runs _execute_query_sync on connection i
Executing(i) == \E w \in DOMAIN pworkers : pworkers[w].kind = "execute" /\ pworkers[w].conn = i

\* C28: a connection is never closed while a pool worker is still executing
\* a statement on it, also after the wait on the execution has expired.
C28_NoCloseDuringExecution ==
    \A i \in 1..Len(conns) : Executing(i) => conns[i].state = "open"

\* the MCPTools constructed after cleanup k
ConstructedAfter(k) == {i \in 1..Len(tools) : i > k.tools_before}

\* C29: no execute_query is issued on a client that has been closed: work
\* is only ever submitted to a running worker pool, and an MCPTools
\* constructed after a cleanup_sql_client does not hold the client that
\* cleanup was called on.
C29_NoUseOfClosedClient ==
    /\ \A u \in uses : u.executor = "running"
    /\ \A k \in cleaned : \A i \in ConstructedAfter(k) : tools[i] # k.client
====
